---- MODULE Spec2Model ----
(***************************************************************************)
(* Multi-turn slot filling of the PMark assistant: the accumulated clues   *)
(* of a conversation (backend/app/models.py), the in-memory session store  *)
(* that holds them (backend/app/session_manager.py), the chat endpoints    *)
(* (api/chat.py), the recommender with its provider and its scorers        *)
(* (logic/recommender.py, database.py) and the scenario of an input        *)
(* (agents/parser.py).                                                     *)
(*                                                                         *)
(* Eight specifications share the variables:                               *)
(*   Spec       the session store, one call of SessionManager at a time    *)
(*              (the FastAPI handlers are coroutines without an await      *)
(*              between their session calls);                              *)
(*   SpecMerge  AccumulatedClues.merge_with folded over a product of       *)
(*              parsed inputs;                                             *)
(*   SpecConc   update_session called from several threads, interleaved    *)
(*              statement by statement (the class takes no lock);          *)
(*   SpecChat   the chat endpoints, one request at a time;                 *)
(*   SpecRank   one call of the recommender or of its provider on a        *)
(*              notification table;                                        *)
(*   SpecSim    the similarity of two strings;                             *)
(*   SpecScore  one call of a scorer on a query and a notification;        *)
(*   SpecClassify  the scenario determined for an utterance.               *)
(*                                                                         *)
(* Confidences are counted in hundredths (0.55 is 55, the margin 0.1 is    *)
(* 10).  On the levels used here the float comparison of the source and    *)
(* the comparison in hundredths agree.  Time is counted in minutes.        *)
(* The scores of the rows of SpecRank are counted in hundredths as well;   *)
(* the scorers of SpecSim and SpecScore calculate in exact fractions.      *)
(***************************************************************************)
EXTENDS Integers, Sequences, FiniteSets, TLC

\* ------------------------------------------------------------------ bounds
MaxTurns == 2
MaxFold == 2
MaxCalls == 1
\* rows of the notification tables that are enumerated row by row
MaxRows == 3
\* rows of the long notification tables
MaxLongRows == 17
\* characters of the strings whose similarity is calculated
MaxLen == 3
\* pieces (words, codes, single characters) an utterance is made of
MaxPieces == 3

\* --------------------------------------------------------------- constants
\* timedelta(minutes=30)
SESSION_TIMEOUT == 30
\* timedelta(minutes=5)
COMPLETED_TIMEOUT == 5
\* the margin 0.1 of merge_with, in hundredths
MARGIN == 10

\* Python's None
None == "<None>"
\* the default of ParsedInput.priority, the Korean word for "general work"
DEFAULT_PRIORITY == "general"

\* truth value of an Optional[str]: None and "" are false
Truthy(v) == v # None /\ v # ""

\* ------------------------------------------------------------------ models
\* AccumulatedClues()
EmptyClues ==
  [location |-> None, equipment_type |-> None, status_code |-> None,
   priority |-> None, itemno |-> None,
   location_confidence |-> 0, equipment_type_confidence |-> 0,
   status_code_confidence |-> 0, priority_confidence |-> 0]

\* ParsedInput(scenario=..., ...)
ParsedInput(scn, loc, eq, st, pri, item, conf) ==
  [scenario |-> scn, location |-> loc, equipment_type |-> eq,
   status_code |-> st, priority |-> pri, itemno |-> item, confidence |-> conf]

\* merge_with as it would be with the margin forgotten
OverwritesNoMargin(new, old, oldConf, conf) ==
  Truthy(new) /\ (~Truthy(old) \/ conf > oldConf)

\* merge_with as it would be without the test that the new value is there
OverwritesAbsent(new, old, oldConf, conf) ==
  ~Truthy(old) \/ conf > oldConf + MARGIN

\* the test of one field in merge_with: the new value is there and the old
\* one is missing or the turn is more confident by more than the margin
Overwrites(new, old, oldConf, conf) ==
  Truthy(new) /\ (~Truthy(old) \/ conf > oldConf + MARGIN)

\* the priority branch of merge_with as it would be without the test against
\* the default
OverwritesPriorityAnyValue(new, old, oldConf, conf) ==
  Truthy(new) /\ (~Truthy(old) \/ conf > oldConf + MARGIN)

\* the priority branch of merge_with
OverwritesPriority(new, old, oldConf, conf) ==
  Truthy(new) /\ new # DEFAULT_PRIORITY /\ (~Truthy(old) \/ conf > oldConf + MARGIN)

\* the itemno branch of merge_with as it would be if the first itemno stayed
merged_itemnoKeepsFirst(self, p) ==
  IF Truthy(p.itemno) /\ ~Truthy(self.itemno) THEN p.itemno ELSE self.itemno

\* the itemno branch of merge_with
merged_itemno(self, p) ==
  IF Truthy(p.itemno) THEN p.itemno ELSE self.itemno

\* merge_with as it would be if a turn that repeats the stored location
\* without replacing it raised the stored confidence by the margin
merge_withReinforces(self, p) ==
  LET loc == Overwrites(p.location, self.location, self.location_confidence, p.confidence)
      eq  == Overwrites(p.equipment_type, self.equipment_type,
                        self.equipment_type_confidence, p.confidence)
      st  == Overwrites(p.status_code, self.status_code,
                        self.status_code_confidence, p.confidence)
      pri == OverwritesPriority(p.priority, self.priority,
                                self.priority_confidence, p.confidence)
      again == ~loc /\ Truthy(p.location) /\ p.location = self.location
               /\ self.location_confidence + MARGIN <= 100
  IN [location |-> IF loc THEN p.location ELSE self.location,
      location_confidence |->
          IF loc THEN p.confidence
          ELSE IF again THEN self.location_confidence + MARGIN
          ELSE self.location_confidence,
      equipment_type |-> IF eq THEN p.equipment_type ELSE self.equipment_type,
      equipment_type_confidence |->
          IF eq THEN p.confidence ELSE self.equipment_type_confidence,
      status_code |-> IF st THEN p.status_code ELSE self.status_code,
      status_code_confidence |->
          IF st THEN p.confidence ELSE self.status_code_confidence,
      priority |-> IF pri THEN p.priority ELSE self.priority,
      priority_confidence |-> IF pri THEN p.confidence ELSE self.priority_confidence,
      itemno |-> merged_itemno(self, p)]

\* merge_with as it would be with the confidence assignments outside the ifs
merge_withStampsConfidence(self, p) ==
  LET loc == Overwrites(p.location, self.location, self.location_confidence, p.confidence)
      eq  == Overwrites(p.equipment_type, self.equipment_type,
                        self.equipment_type_confidence, p.confidence)
      st  == Overwrites(p.status_code, self.status_code,
                        self.status_code_confidence, p.confidence)
      pri == OverwritesPriority(p.priority, self.priority,
                                self.priority_confidence, p.confidence)
  IN [location |-> IF loc THEN p.location ELSE self.location,
      location_confidence |-> p.confidence,
      equipment_type |-> IF eq THEN p.equipment_type ELSE self.equipment_type,
      equipment_type_confidence |-> p.confidence,
      status_code |-> IF st THEN p.status_code ELSE self.status_code,
      status_code_confidence |-> p.confidence,
      priority |-> IF pri THEN p.priority ELSE self.priority,
      priority_confidence |-> p.confidence,
      itemno |-> merged_itemno(self, p)]

\* AccumulatedClues.merge_with
merge_with(self, p) ==
  LET loc == Overwrites(p.location, self.location, self.location_confidence, p.confidence)
      eq  == Overwrites(p.equipment_type, self.equipment_type,
                        self.equipment_type_confidence, p.confidence)
      st  == Overwrites(p.status_code, self.status_code,
                        self.status_code_confidence, p.confidence)
      pri == OverwritesPriority(p.priority, self.priority,
                                self.priority_confidence, p.confidence)
  IN [location |-> IF loc THEN p.location ELSE self.location,
      location_confidence |-> IF loc THEN p.confidence ELSE self.location_confidence,
      equipment_type |-> IF eq THEN p.equipment_type ELSE self.equipment_type,
      equipment_type_confidence |->
          IF eq THEN p.confidence ELSE self.equipment_type_confidence,
      status_code |-> IF st THEN p.status_code ELSE self.status_code,
      status_code_confidence |->
          IF st THEN p.confidence ELSE self.status_code_confidence,
      priority |-> IF pri THEN p.priority ELSE self.priority,
      priority_confidence |-> IF pri THEN p.confidence ELSE self.priority_confidence,
      itemno |-> merged_itemno(self, p)]

\* merge_with as it would be if it assigned to self instead of to a copy
self_after_mergeInPlace(self, p) == merge_with(self, p)

\* the object merge_with was called on, after the call: merge_with assigns
\* only to the copy it made (merged = AccumulatedClues(location=self.location,
\* ...)), never to self
self_after_merge(self, p) == self

\* the parsed input after merge_with: it is only read
input_after_merge(self, p) == p

\* AccumulatedClues.get_missing_fields
get_missing_fields(self) ==
  (IF ~Truthy(self.location) THEN <<"location">> ELSE <<>>)
  \o (IF ~Truthy(self.equipment_type) THEN <<"equipment_type">> ELSE <<>>)
  \o (IF ~Truthy(self.status_code) THEN <<"status_code">> ELSE <<>>)

\* AccumulatedClues.has_sufficient_info
has_sufficient_info(self) ==
  Truthy(self.location) /\ Truthy(self.equipment_type) /\ Truthy(self.status_code)

\* _determine_session_status as it would be if it looked for the identifier
\* in the turn alone
determine_session_statusTurnOnly(clues, p) ==
  IF p.scenario = "S2" \/ Truthy(p.itemno) THEN "finalizing"
  ELSE IF has_sufficient_info(clues) THEN "recommending"
  ELSE "collecting_info"

\* SessionManager._determine_session_status
determine_session_status(clues, p) ==
  IF p.scenario = "S2" \/ Truthy(clues.itemno) THEN "finalizing"
  ELSE IF has_sufficient_info(clues) THEN "recommending"
  ELSE "collecting_info"

\* create_session as it would be if it counted the creation as a turn
NewSessionCountsTurn(id, t) ==
  [session_id |-> id, accumulated_clues |-> EmptyClues,
   session_status |-> "collecting_info", last_updated |-> t, turn_count |-> 1]

\* SessionState(...) as create_session builds it (created_at is written
\* there and read nowhere; it is left out of the state)
NewSession(id, t) ==
  [session_id |-> id, accumulated_clues |-> EmptyClues,
   session_status |-> "collecting_info", last_updated |-> t, turn_count |-> 0]

\* ------------------------------------------------------------------- state
VARIABLES
  sessions,   \* SessionManager._sessions: session id -> SessionState
  nextId,     \* number of ids uuid.uuid4 has issued; ids are 1, 2, ...
  now,        \* datetime.now(), minutes
  turns,      \* the update_session calls made so far
  last,       \* the call made last and what it returned
  merges,     \* per stored session, the updates merged into it since creation
  th,         \* SpecConc, SpecEvict: the threads inside a call
  base,       \* SpecConc: the store when the running calls began, and the calls;
              \* SpecEvict: the SessionState objects
  fold,       \* SpecMerge: the clues before a merge, the input, the clues after
  rank,       \* SpecRank, SpecRetry: the notification table, the call made on
              \* it, its results
  scoring,    \* SpecScore, SpecSim: the inputs of a scorer and what it returned
  parse       \* SpecClassify, SpecAnalyze: an utterance and the scenario
              \* determined for it

storeVars == <<sessions, nextId, now, turns, last, merges>>
concVars == <<th, base>>
vars == <<sessions, nextId, now, turns, last, merges, th, base, fold, rank, scoring, parse>>

\* the session ids uuid.uuid4 issues in a run, in this order
SessionIds == {1, 2}

\* a session id no uuid4 call has issued
UnknownId == 0

\* the parsed input of a call that takes none
NoInput == ParsedInput("-", None, None, None, DEFAULT_PRIORITY, None, 0)

\* the turns the parser hands to update_session: a location at 0.5, another
\* within the margin of it, the two turns of the end-to-end example, an
\* identifier turn, an identifier scenario in which no identifier was found
\* (nothing extracted at all), an empty string with a stated priority at 1.0,
\* a field at confidence 0.0, and a whole description in one turn
Turns ==
  { ParsedInput("S1", "A", None, None, DEFAULT_PRIORITY, None, 50),
    ParsedInput("S1", "B", None, None, DEFAULT_PRIORITY, None, 55),
    ParsedInput("S1", "A", None, None, DEFAULT_PRIORITY, None, 90),
    ParsedInput("S1", None, "P", "F", DEFAULT_PRIORITY, None, 85),
    ParsedInput("S2", None, None, "F", DEFAULT_PRIORITY, "X", 85),
    ParsedInput("S2", None, None, None, DEFAULT_PRIORITY, None, 0),
    ParsedInput("S1", "", "P", None, "urgent", None, 100),
    ParsedInput("S1", None, None, "F", DEFAULT_PRIORITY, None, 0),
    ParsedInput("S1", "A", "P", "F", DEFAULT_PRIORITY, None, 85) }

\* del d[k] as it would be if it emptied the dictionary
RemoveAll(d, k) == <<>>

\* del d[k]
Remove(d, k) == [j \in DOMAIN d \ {k} |-> d[j]]

\* d[k] = v
Put(d, k, v) == [j \in DOMAIN d \cup {k} |-> IF j = k THEN v ELSE d[j]]

\* what a call leaves in last
Call(op, sid, x, rid, ok) == [op |-> op, sid |-> sid, x |-> x, rid |-> rid, ok |-> ok]

\* the timeout test as it would be if it never fired
TimedOutNever(session, t) == FALSE

\* the timeout test with >= for >
TimedOutAtLimit(session, t) == t - session.last_updated >= SESSION_TIMEOUT

\* the timeout test of get_session and cleanup_expired_sessions
TimedOut(session, t) == t - session.last_updated > SESSION_TIMEOUT

\* the second test of cleanup_expired_sessions with >= for >
CompletedLongAgoAtLimit(session, t) ==
  session.session_status = "completed" /\ t - session.last_updated >= COMPLETED_TIMEOUT

\* the second test of cleanup_expired_sessions
CompletedLongAgo(session, t) ==
  session.session_status = "completed" /\ t - session.last_updated > COMPLETED_TIMEOUT

\* get_session as it would be without the timeout check
get_session_foundNoTimeout(d, id, t) == id \in DOMAIN d

\* get_session: whether it returns the session
get_session_found(d, id, t) == id \in DOMAIN d /\ ~TimedOut(d[id], t)

\* get_session as it would be if a successful lookup refreshed last_updated
get_session_storeTouches(d, id, t) ==
  IF id \notin DOMAIN d THEN d
  ELSE IF TimedOut(d[id], t) THEN Remove(d, id)
  ELSE Put(d, id, [d[id] EXCEPT !.last_updated = t])

\* get_session: the store it leaves
get_session_store(d, id, t) ==
  IF id \in DOMAIN d /\ TimedOut(d[id], t) THEN Remove(d, id) ELSE d

\* update_session as it would be without turn_count += 1
UpdatedNoCount(session, merged, status, t) ==
  [session EXCEPT !.accumulated_clues = merged, !.session_status = status,
                  !.last_updated = t]

\* the assignments of update_session to the session object
Updated(session, merged, status, t) ==
  [session EXCEPT !.accumulated_clues = merged, !.session_status = status,
                  !.turn_count = @ + 1, !.last_updated = t]

\* the assignments of finalize_session to the session object
Finalized(session, t) ==
  [session EXCEPT !.session_status = "completed", !.last_updated = t]

Init ==
  /\ sessions = <<>>
  /\ nextId = 0
  /\ now = 0
  /\ turns = 0
  /\ last = Call("init", UnknownId, NoInput, UnknownId, FALSE)
  /\ merges = <<>>
  /\ th = <<>>
  /\ base = <<>>
  /\ fold = <<>>
  /\ rank = <<>>
  /\ scoring = <<>>
  /\ parse = <<>>

\* ---------------------------------------------------- the store, call by call
\* create_session
CreateSession ==
  /\ nextId + 1 \in SessionIds
  /\ LET id == nextId + 1 IN
       /\ sessions' = Put(sessions, id, NewSession(id, now))
       /\ merges' = Put(merges, id, 0)
       /\ nextId' = id
       /\ last' = Call("create", UnknownId, NoInput, id, TRUE)
  /\ UNCHANGED <<now, turns, concVars, fold, rank, scoring, parse>>

\* get_session
GetSession(id) ==
  /\ sessions' = get_session_store(sessions, id, now)
  /\ merges' = [j \in DOMAIN sessions' |-> merges[j]]
  /\ last' = LET found == get_session_found(sessions, id, now)
             IN Call("get", id, NoInput, IF found THEN id ELSE UnknownId, found)
  /\ UNCHANGED <<nextId, now, turns, concVars, fold, rank, scoring, parse>>

\* update_session
UpdateSession(id, x) ==
  LET found == get_session_found(sessions, id, now)
      kept == get_session_store(sessions, id, now)
      sid == IF found THEN id ELSE nextId + 1
      store == IF found THEN kept ELSE Put(kept, sid, NewSession(sid, now))
      session == store[sid]
      merged_clues == merge_with(session.accumulated_clues, x)
      new_status == determine_session_status(merged_clues, x)
  IN /\ turns < MaxTurns
     /\ found \/ nextId + 1 \in SessionIds
     /\ turns' = turns + 1
     /\ sessions' = Put(store, sid, Updated(session, merged_clues, new_status, now))
     /\ merges' = [j \in DOMAIN sessions' |->
                     IF j = sid THEN (IF found THEN merges[j] ELSE 0) + 1 ELSE merges[j]]
     /\ nextId' = IF found THEN nextId ELSE sid
     /\ last' = Call("update", id, x, sid, TRUE)
     /\ UNCHANGED <<now, concVars, fold, rank, scoring, parse>>

\* finalize_session
FinalizeSession(id) ==
  /\ sessions' = IF id \in DOMAIN sessions
                   THEN Put(sessions, id, Finalized(sessions[id], now))
                   ELSE sessions
  /\ last' = Call("finalize", id, NoInput, UnknownId, id \in DOMAIN sessions)
  /\ UNCHANGED <<nextId, now, turns, merges, concVars, fold, rank, scoring, parse>>

\* clear_session
ClearSession(id) ==
  /\ sessions' = IF id \in DOMAIN sessions THEN Remove(sessions, id) ELSE sessions
  /\ merges' = [j \in DOMAIN sessions' |-> merges[j]]
  /\ last' = Call("clear", id, NoInput, UnknownId, id \in DOMAIN sessions)
  /\ UNCHANGED <<nextId, now, turns, concVars, fold, rank, scoring, parse>>

\* cleanup_expired_sessions
CleanupExpiredSessions ==
  /\ LET expired_sessions ==
           {id \in DOMAIN sessions :
              TimedOut(sessions[id], now) \/ CompletedLongAgo(sessions[id], now)}
     IN sessions' = [j \in DOMAIN sessions \ expired_sessions |-> sessions[j]]
  /\ merges' = [j \in DOMAIN sessions' |-> merges[j]]
  /\ last' = Call("cleanup", UnknownId, NoInput, UnknownId, TRUE)
  /\ UNCHANGED <<nextId, now, turns, concVars, fold, rank, scoring, parse>>

\* the instants at which calls are made: they put a session at the limit and
\* beyond it for COMPLETED_TIMEOUT (ages 5 and 25) and SESSION_TIMEOUT (30, 35)
Instants == <<0, 5, 30, 35>>

\* the clock advances between calls
Tick ==
  /\ \E i \in 1 .. Len(Instants) - 1 : now = Instants[i] /\ now' = Instants[i + 1]
  /\ last' = Call("tick", UnknownId, NoInput, UnknownId, TRUE)
  /\ UNCHANGED <<sessions, nextId, turns, merges, concVars, fold, rank, scoring, parse>>

\* the ids a caller can pass: those issued so far and one never issued
CallerIds == 0 .. nextId

Next ==
  \/ CreateSession
  \/ \E id \in CallerIds : GetSession(id)
  \/ \E id \in CallerIds, x \in Turns : UpdateSession(id, x)
  \/ \E id \in CallerIds : FinalizeSession(id)
  \/ \E id \in CallerIds : ClearSession(id)
  \/ CleanupExpiredSessions
  \/ Tick

Spec == Init /\ [][Next]_vars

\* ------------------------------------------------- merge_with, turn by turn
\* the parsed inputs merge_with is folded over: the three main fields at
\* every confidence level (0.9 among them, the level from which no turn can
\* exceed the stored confidence by more than the margin), and priority and
\* itemno, with and without a location
MergeInputs ==
  { ParsedInput("S1", loc, eq, st, DEFAULT_PRIORITY, None, conf) :
      loc \in {None, "", "A", "B"}, eq \in {None, "P"}, st \in {None, "F"},
      conf \in {0, 50, 55, 65, 90, 100} }
  \cup
  { ParsedInput("S1", loc, None, None, pri, item, conf) :
      loc \in {None, "A"},
      pri \in {None, "", DEFAULT_PRIORITY, "urgent", "emergency"},
      item \in {None, "", "X", "Y"},
      conf \in {0, 50, 55, 65, 100} }

InitMerge ==
  /\ sessions = <<>>
  /\ nextId = 0
  /\ now = 0
  /\ turns = 0
  /\ last = Call("init", UnknownId, NoInput, UnknownId, FALSE)
  /\ merges = <<>>
  /\ th = <<>>
  /\ base = <<>>
  /\ fold = [prev |-> EmptyClues, x |-> NoInput, cur |-> EmptyClues, n |-> 0]
  /\ rank = <<>>
  /\ scoring = <<>>
  /\ parse = <<>>

\* merged = clues.merge_with(parsed_input), on the clues of the turn before
MergeStep(x) ==
  /\ fold.n < MaxFold
  /\ fold' = [prev |-> fold.cur, x |-> x, cur |-> merge_with(fold.cur, x),
              n |-> fold.n + 1]
  /\ UNCHANGED <<storeVars, concVars, rank, scoring, parse>>

NextMerge == \E x \in MergeInputs : MergeStep(x)

SpecMerge == InitMerge /\ [][NextMerge]_vars

\* ---------------------------------- update_session, statement by statement
\* the request threads
Threads == {1, 2}

\* a thread outside update_session
Idle == [pc |-> "idle", calls |-> 0, session_id |-> UnknownId, x |-> NoInput,
         session |-> UnknownId, merged_clues |-> EmptyClues,
         new_status |-> "collecting_info", count |-> 0]

\* one session has been created; no thread is inside update_session
InitConc ==
  /\ sessions = Put(<<>>, 1, NewSession(1, 0))
  /\ nextId = 1
  /\ now = 0
  /\ turns = 0
  /\ last = Call("create", UnknownId, NoInput, 1, TRUE)
  /\ merges = Put(<<>>, 1, 0)
  /\ th = [t \in Threads |-> Idle]
  /\ base = [store |-> sessions, calls |-> <<>>]
  /\ fold = <<>>
  /\ rank = <<>>
  /\ scoring = <<>>
  /\ parse = <<>>

\* a thread enters update_session(session_id, parsed_input)
ConcCall(t, id, x) ==
  /\ th[t].pc = "idle"
  /\ th[t].calls < MaxCalls
  /\ th' = [th EXCEPT ![t] = [@ EXCEPT !.pc = "get", !.session_id = id, !.x = x]]
  /\ base' = IF \A u \in Threads : th[u].pc = "idle"
               THEN [store |-> sessions, calls |-> <<[id |-> id, x |-> x]>>]
               ELSE [base EXCEPT !.calls = Append(@, [id |-> id, x |-> x])]
  /\ UNCHANGED <<storeVars, fold, rank, scoring, parse>>

\* session = self.get_session(session_id)
ConcGet(t) ==
  /\ th[t].pc = "get"
  /\ LET found == get_session_found(sessions, th[t].session_id, now) IN
       /\ sessions' = get_session_store(sessions, th[t].session_id, now)
       /\ th' = [th EXCEPT ![t] =
                   [@ EXCEPT !.pc = IF found THEN "merge" ELSE "create",
                             !.session = IF found THEN th[t].session_id ELSE UnknownId]]
  /\ merges' = [j \in DOMAIN sessions' |-> merges[j]]
  /\ UNCHANGED <<nextId, now, turns, last, base, fold, rank, scoring, parse>>

\* if not session: session_id = self.create_session();
\* session = self._sessions[session_id]
ConcCreate(t) ==
  /\ th[t].pc = "create"
  /\ nextId + 1 \in SessionIds
  /\ LET id == nextId + 1 IN
       /\ sessions' = Put(sessions, id, NewSession(id, now))
       /\ merges' = Put(merges, id, 0)
       /\ nextId' = id
       /\ th' = [th EXCEPT ![t] = [@ EXCEPT !.pc = "merge", !.session = id]]
  /\ UNCHANGED <<now, turns, last, base, fold, rank, scoring, parse>>

\* merged_clues = session.accumulated_clues.merge_with(parsed_input);
\* new_status = self._determine_session_status(merged_clues, parsed_input)
ConcMerge(t) ==
  /\ th[t].pc = "merge"
  /\ LET self == sessions[th[t].session].accumulated_clues
         merged == merge_with(self, th[t].x)
     IN /\ th' = [th EXCEPT ![t] =
                    [@ EXCEPT !.pc = "assign_clues", !.merged_clues = merged,
                              !.x = input_after_merge(self, th[t].x),
                              !.new_status = determine_session_status(merged, th[t].x)]]
        /\ sessions' = [sessions EXCEPT ![th[t].session].accumulated_clues =
                                          self_after_merge(self, th[t].x)]
  /\ UNCHANGED <<nextId, now, turns, last, merges, base, fold, rank, scoring, parse>>

\* session.accumulated_clues = merged_clues
ConcAssignClues(t) ==
  /\ th[t].pc = "assign_clues"
  /\ sessions' = [sessions EXCEPT
                    ![th[t].session].accumulated_clues = th[t].merged_clues]
  /\ merges' = [merges EXCEPT ![th[t].session] = @ + 1]
  /\ th' = [th EXCEPT ![t].pc = "assign_status"]
  /\ UNCHANGED <<nextId, now, turns, last, base, fold, rank, scoring, parse>>

\* session.session_status = new_status
ConcAssignStatus(t) ==
  /\ th[t].pc = "assign_status"
  /\ sessions' = [sessions EXCEPT ![th[t].session].session_status = th[t].new_status]
  /\ th' = [th EXCEPT ![t].pc = "read_count"]
  /\ UNCHANGED <<nextId, now, turns, last, merges, base, fold, rank, scoring, parse>>

\* session.turn_count += 1: the read
ConcReadCount(t) ==
  /\ th[t].pc = "read_count"
  /\ th' = [th EXCEPT ![t] = [@ EXCEPT !.pc = "write_count",
                                       !.count = sessions[th[t].session].turn_count]]
  /\ UNCHANGED <<storeVars, base, fold, rank, scoring, parse>>

\* session.turn_count += 1: the write
ConcWriteCount(t) ==
  /\ th[t].pc = "write_count"
  /\ sessions' = [sessions EXCEPT ![th[t].session].turn_count = th[t].count + 1]
  /\ th' = [th EXCEPT ![t].pc = "stamp"]
  /\ UNCHANGED <<nextId, now, turns, last, merges, base, fold, rank, scoring, parse>>

\* session.last_updated = datetime.now(); return session
ConcReturn(t) ==
  /\ th[t].pc = "stamp"
  /\ sessions' = [sessions EXCEPT ![th[t].session].last_updated = now]
  /\ last' = Call("update", th[t].session_id, th[t].x, th[t].session, TRUE)
  /\ turns' = turns + 1
  /\ th' = [th EXCEPT ![t] = [Idle EXCEPT !.calls = th[t].calls + 1]]
  /\ UNCHANGED <<nextId, now, merges, base, fold, rank, scoring, parse>>

\* the turns the threads bring: the two turns of the end-to-end example and a
\* location within the margin of the first
ConcTurns ==
  { ParsedInput("S1", "A", None, None, DEFAULT_PRIORITY, None, 90),
    ParsedInput("S1", None, "P", "F", DEFAULT_PRIORITY, None, 85),
    ParsedInput("S1", "B", None, None, DEFAULT_PRIORITY, None, 55) }

NextConc ==
  \E t \in Threads :
    \/ \E id \in 0 .. nextId, x \in ConcTurns : ConcCall(t, id, x)
    \/ ConcGet(t)
    \/ ConcCreate(t)
    \/ ConcMerge(t)
    \/ ConcAssignClues(t)
    \/ ConcAssignStatus(t)
    \/ ConcReadCount(t)
    \/ ConcWriteCount(t)
    \/ ConcReturn(t)

SpecConc == InitConc /\ [][NextConc]_vars

\* ------------------------- update_session against the evicting operations
\* In SpecEvict one thread is inside update_session while a second runs
\* cleanup_expired_sessions and a third get_session; base holds the
\* SessionState objects (an object outlives its removal from _sessions, and
\* the thread that fetched it goes on assigning to it), sessions holds the
\* dictionary.

\* the ids the evicting threads and the updating thread are called with
EvictIds == {1}

\* a thread outside update_session, cleanup_expired_sessions and get_session
EvictIdle == [pc |-> "idle", calls |-> 0, session_id |-> UnknownId, x |-> NoInput,
              session |-> UnknownId, merged_clues |-> EmptyClues,
              expired_sessions |-> <<>>, raised |-> FALSE]

\* the dictionary after an assignment to a field of an object: it shows the
\* objects it holds as they now are
Shown(d, objects) == [j \in DOMAIN d |-> objects[j]]

\* expired_sessions as the first loop of cleanup_expired_sessions builds it at
\* current_time t: the ids of d from id from on, in insertion order (ids are
\* issued in increasing order)
RECURSIVE Scanned(_, _, _)
Scanned(d, t, from) ==
  IF from \notin SessionIds THEN <<>>
  ELSE (IF from \in DOMAIN d /\ (TimedOut(d[from], t) \/ CompletedLongAgo(d[from], t))
          THEN <<from>> ELSE <<>>) \o Scanned(d, t, from + 1)

\* one session was created at 0 and no thread is inside a call
InitEvict ==
  /\ sessions = Put(<<>>, 1, NewSession(1, 0))
  /\ nextId = 1
  /\ now = 0
  /\ turns = 0
  /\ last = Call("create", UnknownId, NoInput, 1, TRUE)
  /\ merges = Put(<<>>, 1, 0)
  /\ th = [update |-> EvictIdle, cleanup |-> EvictIdle, get |-> EvictIdle]
  /\ base = sessions
  /\ fold = <<>>
  /\ rank = <<>>
  /\ scoring = <<>>
  /\ parse = <<>>

\* the updating thread enters update_session(session_id, parsed_input)
EvictUpdateCall(id, x) ==
  /\ th.update.pc = "idle"
  /\ th.update.calls < MaxCalls
  /\ th' = [th EXCEPT !.update = [@ EXCEPT !.pc = "get", !.session_id = id, !.x = x]]
  /\ UNCHANGED <<storeVars, base, fold, rank, scoring, parse>>

\* session = self.get_session(session_id)
EvictUpdateGet ==
  /\ th.update.pc = "get"
  /\ LET found == get_session_found(sessions, th.update.session_id, now) IN
       /\ sessions' = get_session_store(sessions, th.update.session_id, now)
       /\ th' = [th EXCEPT !.update =
                   [@ EXCEPT !.pc = IF found THEN "merge" ELSE "create",
                             !.session = IF found THEN th.update.session_id
                                         ELSE UnknownId]]
  /\ merges' = [j \in DOMAIN sessions' |-> merges[j]]
  /\ UNCHANGED <<nextId, now, turns, last, base, fold, rank, scoring, parse>>

\* if not session: session_id = self.create_session();
\* session = self._sessions[session_id]
EvictUpdateCreate ==
  /\ th.update.pc = "create"
  /\ nextId + 1 \in SessionIds
  /\ LET id == nextId + 1 IN
       /\ base' = Put(base, id, NewSession(id, now))
       /\ sessions' = Put(sessions, id, NewSession(id, now))
       /\ merges' = Put(merges, id, 0)
       /\ nextId' = id
       /\ th' = [th EXCEPT !.update = [@ EXCEPT !.pc = "merge", !.session = id]]
  /\ UNCHANGED <<now, turns, last, fold, rank, scoring, parse>>

\* merged_clues = session.accumulated_clues.merge_with(parsed_input);
\* new_status = ...; session.accumulated_clues = merged_clues;
\* session.session_status = new_status; session.turn_count += 1
EvictUpdateMerge ==
  /\ th.update.pc = "merge"
  /\ LET session == base[th.update.session]
         merged_clues == merge_with(session.accumulated_clues, th.update.x)
         new_status == determine_session_status(merged_clues, th.update.x)
     IN /\ base' = [base EXCEPT ![th.update.session] =
                      [@ EXCEPT !.accumulated_clues = merged_clues,
                                !.session_status = new_status,
                                !.turn_count = @ + 1]]
        /\ th' = [th EXCEPT !.update = [@ EXCEPT !.pc = "stamp",
                                                 !.merged_clues = merged_clues]]
  /\ sessions' = Shown(sessions, base')
  /\ merges' = [j \in DOMAIN merges |->
                  IF j = th.update.session THEN merges[j] + 1 ELSE merges[j]]
  /\ UNCHANGED <<nextId, now, turns, last, fold, rank, scoring, parse>>

\* session.last_updated = datetime.now(); return session
EvictUpdateReturn ==
  /\ th.update.pc = "stamp"
  /\ base' = [base EXCEPT ![th.update.session].last_updated = now]
  /\ sessions' = Shown(sessions, base')
  /\ last' = Call("update", th.update.session_id, th.update.x, th.update.session, TRUE)
  /\ turns' = turns + 1
  /\ th' = [th EXCEPT !.update = [@ EXCEPT !.pc = "idle", !.calls = @ + 1]]
  /\ UNCHANGED <<nextId, now, merges, fold, rank, scoring, parse>>

\* cleanup_expired_sessions: current_time = datetime.now() and the loop that
\* collects expired_sessions
EvictCleanupScan ==
  /\ th.cleanup.pc = "idle"
  /\ th' = [th EXCEPT !.cleanup =
              [@ EXCEPT !.pc = "delete", !.raised = FALSE,
                        !.expired_sessions = Scanned(sessions, now, 1)]]
  /\ UNCHANGED <<storeVars, base, fold, rank, scoring, parse>>

\* cleanup_expired_sessions: one pass of the loop
\* for session_id in expired_sessions: del self._sessions[session_id];
\* del raises KeyError when another thread has removed the entry
EvictCleanupDelete ==
  /\ th.cleanup.pc = "delete"
  /\ th.cleanup.expired_sessions # <<>>
  /\ LET id == Head(th.cleanup.expired_sessions)
         there == id \in DOMAIN sessions
     IN /\ sessions' = IF there THEN Remove(sessions, id) ELSE sessions
        /\ last' = Call("cleanup", id, NoInput, UnknownId, there)
        /\ th' = [th EXCEPT !.cleanup =
                    IF there THEN [@ EXCEPT !.expired_sessions = Tail(@)]
                    ELSE [@ EXCEPT !.pc = "idle", !.expired_sessions = <<>>,
                                   !.raised = TRUE]]
  /\ merges' = [j \in DOMAIN sessions' |-> merges[j]]
  /\ UNCHANGED <<nextId, now, turns, base, fold, rank, scoring, parse>>

\* cleanup_expired_sessions returns
EvictCleanupReturn ==
  /\ th.cleanup.pc = "delete"
  /\ th.cleanup.expired_sessions = <<>>
  /\ th' = [th EXCEPT !.cleanup = [@ EXCEPT !.pc = "idle"]]
  /\ UNCHANGED <<storeVars, base, fold, rank, scoring, parse>>

\* get_session: the membership test, session = self._sessions[session_id] and
\* the timeout test; it returns when the session is missing or alive
EvictGetCheck(id) ==
  /\ th.get.pc = "idle"
  /\ LET expired == id \in DOMAIN sessions /\ TimedOut(sessions[id], now) IN
       /\ th' = [th EXCEPT !.get =
                   [@ EXCEPT !.pc = IF expired THEN "delete" ELSE "idle",
                             !.session_id = id, !.raised = FALSE]]
       /\ last' = IF expired THEN last
                  ELSE Call("get", id, NoInput,
                            IF id \in DOMAIN sessions THEN id ELSE UnknownId,
                            id \in DOMAIN sessions)
  /\ UNCHANGED <<sessions, nextId, now, turns, merges, base, fold, rank, scoring, parse>>

\* get_session: del self._sessions[session_id]; return None
EvictGetDelete ==
  /\ th.get.pc = "delete"
  /\ LET id == th.get.session_id
         there == id \in DOMAIN sessions
     IN /\ sessions' = IF there THEN Remove(sessions, id) ELSE sessions
        /\ last' = Call("get", id, NoInput, UnknownId, FALSE)
        /\ th' = [th EXCEPT !.get = [@ EXCEPT !.pc = "idle", !.raised = ~there]]
  /\ merges' = [j \in DOMAIN sessions' |-> merges[j]]
  /\ UNCHANGED <<nextId, now, turns, base, fold, rank, scoring, parse>>

NextEvict ==
  \/ \E id \in EvictIds, x \in ConcTurns : EvictUpdateCall(id, x)
  \/ EvictUpdateGet
  \/ EvictUpdateCreate
  \/ EvictUpdateMerge
  \/ EvictUpdateReturn
  \/ EvictCleanupScan
  \/ EvictCleanupDelete
  \/ EvictCleanupReturn
  \/ \E id \in EvictIds : EvictGetCheck(id)
  \/ EvictGetDelete
  \/ Tick

SpecEvict == InitEvict /\ [][NextEvict]_vars

\* ------------------------------------------- the recommender and its provider
\* the score above which a candidate is recommended, 0.2, in hundredths
SCORE_CUTOFF == 20
\* the default of get_recommendations' limit
DEFAULT_LIMIT == 5
\* the size of a page of search_similar_notifications
PAGE == 5
\* the count from which search_similar_notifications logs "more than 15"
PAGE_LIMIT == 15

\* s[:n]
Take(s, n) == SubSeq(s, 1, IF Len(s) < n THEN Len(s) ELSE n)

\* A row of notification_history, seen from one query: whether it satisfies
\* the WHERE clause of search_similar_notifications, whether its location is
\* LIKE the query's (the CASE of the ORDER BY), how its itemno stands to the
\* query's itemno (search_by_itemno), and the score the scorer gives it, in
\* hundredths.  A table is the sequence of its rows by created_at, latest
\* first; id is the place of the row in it.
Row(id, matches, loc, item, score) ==
  [id |-> id, matches |-> matches, loc |-> loc, item |-> item, score |-> score,
   raises |-> FALSE]

\* A row on which _calculate_simple_similarity_score raises: the query holds
\* equipment_type, location and status_code, the row lacks one of the three
\* columns, and the test of the bonus reads the match that was never bound.
RaisingRow(id, matches) ==
  [id |-> id, matches |-> matches, loc |-> FALSE, item |-> "none", score |-> 0,
   raises |-> TRUE]

InWhere(r) == r.matches
LocationLike(r) == InWhere(r) /\ r.loc
LocationNotLike(r) == InWhere(r) /\ ~r.loc
ItemExact(r) == r.item = "exact"
ItemStart(r) == r.item = "start"
ItemEnd(r) == r.item = "end"
ItemMiddle(r) == r.item = "middle"
ItemPattern(r) == r.item = "pattern"
AboveCutoff(r) == r.score > SCORE_CUTOFF
\* the scorer get_recommendations calls on r raises; the scorer of the
\* identifier scenario binds every name it reads
ScorerRaises(r, by_itemno) == ~by_itemno /\ r.raises

\* the SELECT of search_similar_notifications: WHERE ..., ORDER BY CASE WHEN
\* location LIKE ? THEN 1 ELSE 2 END, created_at DESC LIMIT ?  (without a
\* location in the query no row is LocationLike and the order is created_at)
select_similar(table, limit) ==
  Take(SelectSeq(table, LocationLike) \o SelectSeq(table, LocationNotLike), limit)

\* _fallback_search: the latest rows, whatever the query
fallback_search(table, limit) == Take(table, limit)

\* the branches of search_similar_notifications for one row and more, as they
\* would be if the last one cut at 15
bandTopFifteen(results) ==
  IF 1 <= Len(results) /\ Len(results) <= PAGE THEN results
  ELSE IF PAGE + 1 <= Len(results) /\ Len(results) <= PAGE_LIMIT THEN Take(results, PAGE)
  ELSE Take(results, PAGE_LIMIT)

\* the branches of search_similar_notifications for one row and more
band(results) ==
  IF 1 <= Len(results) /\ Len(results) <= PAGE THEN results
  ELSE IF PAGE + 1 <= Len(results) /\ Len(results) <= PAGE_LIMIT THEN Take(results, PAGE)
  ELSE Take(results, PAGE)

\* search_similar_notifications, when SQLite raises no error
search_similar_notifications(table, limit) ==
  LET results == select_similar(table, limit)
  IN IF Len(results) = 0 THEN fallback_search(table, limit) ELSE band(results)

\* search_by_itemno for an itemno with a digit or a letter in it: the exact
\* matches, then the partial ones (start, end, middle), then the rows that
\* share its digits and letters, each by created_at, up to limit rows
search_by_itemno(table, limit) ==
  LET exact == SelectSeq(table, ItemExact)
      partial == Take(SelectSeq(table, ItemStart) \o SelectSeq(table, ItemEnd)
                        \o SelectSeq(table, ItemMiddle), limit - Len(exact))
      two == IF Len(exact) < limit THEN exact \o partial ELSE exact
      pattern == Take(SelectSeq(table, ItemPattern), limit - Len(two))
      three == IF Len(two) < limit THEN two \o pattern ELSE two
  IN Take(three, limit)

\* list.sort(key=lambda x: x.score, reverse=True) as it would be if the sort
\* were not stable: r goes before the rows that score as much
InsertedBeforeTies(sorted, r) ==
  LET before == SelectSeq(sorted, LAMBDA q : q.score > r.score)
      after == SelectSeq(sorted, LAMBDA q : q.score <= r.score)
  IN before \o <<r>> \o after

\* one step of the sort: r, which came after the rows of sorted, goes behind
\* the rows that score at least as much
Inserted(sorted, r) ==
  LET before == SelectSeq(sorted, LAMBDA q : q.score >= r.score)
      after == SelectSeq(sorted, LAMBDA q : q.score < r.score)
  IN before \o <<r>> \o after

RECURSIVE SortByScore(_)
\* recommendations.sort(key=lambda x: x.score, reverse=True): descending and
\* stable
SortByScore(s) ==
  IF s = <<>> THEN <<>>
  ELSE Inserted(SortByScore(SubSeq(s, 1, Len(s) - 1)), s[Len(s)])

\* RecommendationEngine.get_recommendations; by_itemno is
\* parsed_input.scenario == "S2" and parsed_input.itemno
get_recommendations(table, by_itemno, limit) ==
  LET similar_notifications ==
        IF by_itemno THEN search_by_itemno(table, limit * 2)
        ELSE search_similar_notifications(table, limit * 2)
      recommendations == SelectSeq(similar_notifications, AboveCutoff)
      raised == \E i \in 1 .. Len(similar_notifications) :
                  ScorerRaises(similar_notifications[i], by_itemno)
  IN IF similar_notifications = <<>> THEN <<>>
     ELSE IF raised THEN <<>>
     ELSE Take(SortByScore(recommendations), limit)

\* whether get_recommendations raises, as it would if its body were not in
\* a try: what a scorer raises reaches the caller
get_recommendations_raisesUncaught(table, by_itemno, limit) ==
  LET similar_notifications ==
        IF by_itemno THEN search_by_itemno(table, limit * 2)
        ELSE search_similar_notifications(table, limit * 2)
  IN \E i \in 1 .. Len(similar_notifications) :
       ScorerRaises(similar_notifications[i], by_itemno)

\* whether get_recommendations raises: its body is in "try", and "except
\* Exception" returns []
get_recommendations_raises(table, by_itemno, limit) == FALSE

\* the scores of the rows: at the cutoff, above it, high
Scores == {20, 50, 90}

\* the rows a table is made of: rows of a descriptive query, rows of an
\* identifier query, and rows on which the descriptive scorer raises
RowKinds ==
  { Row(0, m, l, "none", sc) : m \in BOOLEAN, l \in BOOLEAN, sc \in Scores }
  \cup
  { Row(0, FALSE, FALSE, it, sc) :
      it \in {"exact", "start", "end", "middle", "pattern"}, sc \in {20, 90} }
  \cup
  { RaisingRow(0, m) : m \in BOOLEAN }

\* the long tables: every row matches the query; the scores are all equal,
\* or grow with the age of the row, or only the oldest row scores
LongTable(n, shape) ==
  [i \in 1 .. n |->
     Row(i, TRUE, FALSE, "pattern",
         CASE shape = "flat" -> 50
           [] shape = "rising" -> SCORE_CUTOFF + i
           [] shape = "oldest" -> IF i = n THEN 90 ELSE 10)]

\* the short tables: every sequence of up to MaxRows rows
ShortTable(t) == [i \in DOMAIN t |-> [t[i] EXCEPT !.id = i]]

\* no call has been made on the table
NoCall(table) ==
  [pc |-> "start", table |-> table, by_itemno |-> FALSE, limit |-> 0,
   results |-> <<>>, similar |-> <<>>, recommendations |-> <<>>,
   error |-> FALSE]

\* the limits search_similar_notifications is called with: the one of
\* get_recommendations, its default, and one above PAGE_LIMIT
Limits == {2 * DEFAULT_LIMIT, PAGE_LIMIT, PAGE_LIMIT + 5}

InitRank ==
  /\ sessions = <<>>
  /\ nextId = 0
  /\ now = 0
  /\ turns = 0
  /\ last = Call("init", UnknownId, NoInput, UnknownId, FALSE)
  /\ merges = <<>>
  /\ th = <<>>
  /\ base = <<>>
  /\ fold = <<>>
  /\ scoring = <<>>
  /\ parse = <<>>
  /\ \/ \E n \in 0 .. MaxRows : \E t \in [1 .. n -> RowKinds] :
          rank = NoCall(ShortTable(t))
     \/ \E n \in 4 .. MaxLongRows : \E shape \in {"flat", "rising", "oldest"} :
          rank = NoCall(LongTable(n, shape))

\* db_manager.search_similar_notifications(..., limit=limit)
SearchSimilarNotifications(limit) ==
  /\ rank.pc = "start"
  /\ rank' = [rank EXCEPT !.pc = "searched", !.limit = limit,
                          !.results = select_similar(rank.table, limit),
                          !.similar = search_similar_notifications(rank.table, limit)]
  /\ UNCHANGED <<storeVars, concVars, fold, scoring, parse>>

\* recommender.get_recommendations(parsed_input)
GetRecommendations(by_itemno) ==
  /\ rank.pc = "start"
  /\ rank' = [rank EXCEPT
                !.pc = "recommended", !.by_itemno = by_itemno,
                !.limit = 2 * DEFAULT_LIMIT,
                !.results = IF by_itemno THEN search_by_itemno(rank.table, 2 * DEFAULT_LIMIT)
                            ELSE select_similar(rank.table, 2 * DEFAULT_LIMIT),
                !.similar = IF by_itemno THEN search_by_itemno(rank.table, 2 * DEFAULT_LIMIT)
                            ELSE search_similar_notifications(rank.table, 2 * DEFAULT_LIMIT),
                !.recommendations = get_recommendations(rank.table, by_itemno, DEFAULT_LIMIT),
                !.error = get_recommendations_raises(rank.table, by_itemno, DEFAULT_LIMIT)]
  /\ UNCHANGED <<storeVars, concVars, fold, scoring, parse>>

NextRank ==
  \/ \E limit \in Limits : SearchSimilarNotifications(limit)
  \/ \E by_itemno \in BOOLEAN : GetRecommendations(by_itemno)

SpecRank == InitRank /\ [][NextRank]_vars

\* ------------------------------- search_similar_notifications, with SQL errors
\* max_retries of search_similar_notifications
MAX_RETRIES == 5

\* s reversed
RECURSIVE Reversed(_)
Reversed(s) == IF s = <<>> THEN <<>> ELSE Append(Reversed(Tail(s)), Head(s))

\* _simple_search: SELECT ... LIMIT ? without an ORDER BY, the rows as they
\* were inserted, oldest first
simple_search(table, limit) == Take(Reversed(table), limit)

\* the rows of the tables of SpecRetry: in or out of the WHERE clause, with a
\* location LIKE the query's or not
RetryRowKinds == { Row(0, m, l, "none", 50) : m \in BOOLEAN, l \in BOOLEAN }

\* search_similar_notifications has not been called
NoSearch(table) ==
  [pc |-> "start", table |-> table, limit |-> 0, retry_count |-> 0,
   attempts |-> 0, errors |-> 0, how |-> "-", similar |-> <<>>]

InitRetry ==
  /\ sessions = <<>>
  /\ nextId = 0
  /\ now = 0
  /\ turns = 0
  /\ last = Call("init", UnknownId, NoInput, UnknownId, FALSE)
  /\ merges = <<>>
  /\ th = <<>>
  /\ base = <<>>
  /\ fold = <<>>
  /\ scoring = <<>>
  /\ parse = <<>>
  /\ \E n \in 0 .. MaxRows : \E t \in [1 .. n -> RetryRowKinds] :
       rank = NoSearch(ShortTable(t))

\* max_retries = 5; retry_count = 0
RetrySearch(limit) ==
  /\ rank.pc = "start"
  /\ rank' = [rank EXCEPT !.pc = "while", !.limit = limit, !.retry_count = 0]
  /\ UNCHANGED <<storeVars, concVars, fold, scoring, parse>>

\* while retry_count < max_retries: ... ; return []
RetryWhile ==
  /\ rank.pc = "while"
  /\ rank' = IF rank.retry_count < MAX_RETRIES
               THEN [rank EXCEPT !.pc = "try"]
               ELSE [rank EXCEPT !.pc = "returned", !.how = "exhausted",
                                 !.similar = <<>>]
  /\ UNCHANGED <<storeVars, concVars, fold, scoring, parse>>

\* the try block: the query is built and executed; self.conn.execute raises
\* sqlite3.Error or the rows are fetched and the branch on their number
\* returns (an empty result goes on into _fallback_search)
RetryTry(raises) ==
  /\ rank.pc = "try"
  /\ LET results == select_similar(rank.table, rank.limit) IN
       rank' = IF raises
                 THEN [rank EXCEPT !.pc = "except", !.attempts = @ + 1,
                                   !.errors = @ + 1]
               ELSE IF Len(results) = 0
                 THEN [rank EXCEPT !.pc = "fallback", !.attempts = @ + 1]
               ELSE [rank EXCEPT !.pc = "returned", !.attempts = @ + 1,
                                 !.how = "primary", !.similar = band(results)]
  /\ UNCHANGED <<storeVars, concVars, fold, scoring, parse>>

\* except sqlite3.Error: retry_count += 1; if retry_count >= max_retries:
\* return self._fallback_search(limit); else: return self._simple_search(limit)
RetryExcept ==
  /\ rank.pc = "except"
  /\ rank' = [rank EXCEPT !.retry_count = @ + 1,
                          !.pc = IF rank.retry_count + 1 >= MAX_RETRIES
                                   THEN "fallback" ELSE "simple"]
  /\ UNCHANGED <<storeVars, concVars, fold, scoring, parse>>

\* return self._simple_search(limit); _simple_search returns [] when its
\* query raises
RetrySimple(raises) ==
  /\ rank.pc = "simple"
  /\ rank' = [rank EXCEPT !.pc = "returned", !.how = "simple",
                          !.similar = IF raises THEN <<>>
                                      ELSE simple_search(rank.table, rank.limit)]
  /\ UNCHANGED <<storeVars, concVars, fold, scoring, parse>>

\* return self._fallback_search(limit); _fallback_search returns [] when its
\* query raises
RetryFallback(raises) ==
  /\ rank.pc = "fallback"
  /\ rank' = [rank EXCEPT !.pc = "returned", !.how = "fallback",
                          !.similar = IF raises THEN <<>>
                                      ELSE fallback_search(rank.table, rank.limit)]
  /\ UNCHANGED <<storeVars, concVars, fold, scoring, parse>>

NextRetry ==
  \/ \E limit \in Limits : RetrySearch(limit)
  \/ RetryWhile
  \/ \E raises \in BOOLEAN : RetryTry(raises)
  \/ RetryExcept
  \/ \E raises \in BOOLEAN : RetrySimple(raises)
  \/ \E raises \in BOOLEAN : RetryFallback(raises)

SpecRetry == InitRetry /\ [][NextRetry]_vars

\* --------------------------------------------------------------- the scorers
\* A string is the sequence of its characters.  The characters: two
\* lower-case letters, an upper-case one, and the blank.
Chars == {"a", "b", "A", " "}
Whitespace == {" "}

\* str.lower()
Lower(c) == IF c = "A" THEN "a" ELSE c
lower(s) == [i \in DOMAIN s |-> Lower(s[i])]

\* a in b, of two strings
In(a, b) == \E i \in 0 .. Len(b) - Len(a) : SubSeq(b, i + 1, i + Len(a)) = a

\* set(s.split()): the maximal runs of characters that are not whitespace
split(s) ==
  { SubSeq(s, i, j) : i \in 1 .. Len(s), j \in 1 .. Len(s) } \cap
  { SubSeq(s, p[1], p[2]) :
      p \in { q \in (1 .. Len(s)) \X (1 .. Len(s)) :
                /\ q[1] <= q[2]
                /\ \A k \in q[1] .. q[2] : s[k] \notin Whitespace
                /\ q[1] = 1 \/ s[q[1] - 1] \in Whitespace
                /\ q[2] = Len(s) \/ s[q[2] + 1] \in Whitespace } }

RECURSIVE Factorial(_)
Factorial(n) == IF n <= 1 THEN 1 ELSE n * Factorial(n - 1)

\* Similarities are counted in units of 1/Unit: every quotient the scorers
\* form of strings of up to MaxLen characters (lengths up to MaxLen, up to
\* MaxLen + 1 tokens in two strings, tenths) is a whole number of units.
Unit == 10 * Factorial(MaxLen) * Factorial(MaxLen + 1)

Min3(x, y, z) ==
  IF x <= y /\ x <= z THEN x ELSE IF y <= z THEN y ELSE z

RECURSIVE dp_row(_, _, _, _)
\* the row dp[i] of the table, cell by cell: prev is dp[i-1], c is
\* str1[i-1], row holds dp[i][0 .. j-1]
dp_row(prev, c, str2, row) ==
  IF Len(row) = Len(str2) + 1 THEN row
  ELSE LET j == Len(row)
           cell == IF c = str2[j] THEN prev[j]
                   ELSE Min3(prev[j + 1], row[j], prev[j]) + 1
       IN dp_row(prev, c, str2, Append(row, cell))

RECURSIVE dp(_, _, _)
\* the row dp[i] of the table; dp[0][j] = j and dp[i][0] = i
dp(str1, str2, i) ==
  IF i = 0 THEN [j \in 1 .. Len(str2) + 1 |-> j - 1]
  ELSE dp_row(dp(str1, str2, i - 1), str1[i], str2, <<i>>)

\* dp[len1][len2]
distance(str1, str2) == dp(str1, str2, Len(str1))[Len(str2) + 1]

\* _calculate_character_similarity as it would be if the distance were
\* divided by the sum of the lengths
calculate_character_similarityBySum(str1, str2) ==
  IF str1 = <<>> \/ str2 = <<>> THEN 0
  ELSE LET sum_len == Len(str1) + Len(str2)
           similarity == Unit - (distance(str1, str2) * Unit) \div sum_len
       IN IF similarity < 0 THEN 0 ELSE similarity

\* _calculate_character_similarity (the test of max_len == 0 is behind the
\* test of the empty strings and never true)
calculate_character_similarity(str1, str2) ==
  IF str1 = <<>> \/ str2 = <<>> THEN 0
  ELSE LET max_len == IF Len(str1) > Len(str2) THEN Len(str1) ELSE Len(str2)
           similarity == Unit - (distance(str1, str2) * Unit) \div max_len
       IN IF similarity < 0 THEN 0 ELSE similarity

\* _calculate_enhanced_string_similarity
calculate_enhanced_string_similarity(str1, str2) ==
  IF str1 = <<>> \/ str2 = <<>> THEN 0
  ELSE IF str1 = str2 THEN Unit
  ELSE IF In(str1, str2) \/ In(str2, str1) THEN
    LET shorter == IF Len(str1) < Len(str2) THEN Len(str1) ELSE Len(str2)
        longer == IF Len(str1) > Len(str2) THEN Len(str1) ELSE Len(str2)
    IN (7 * Unit) \div 10 + (shorter * 2 * Unit) \div (longer * 10)
  ELSE
    LET words1 == split(str1)
        words2 == split(str2)
        common_words == words1 \cap words2
        total_words == words1 \cup words2
        char_similarity == calculate_character_similarity(str1, str2)
    IN IF words1 = {} \/ words2 = {} THEN 0
       ELSE (Cardinality(common_words) * 7 * Unit) \div (Cardinality(total_words) * 10)
              + (char_similarity * 3) \div 10

\* the similarity of two fields, as both scorers calculate it:
\* _calculate_enhanced_string_similarity(a.lower(), b.lower())
field_similarity(a, b) == calculate_enhanced_string_similarity(lower(a), lower(b))

\* the values of a field that is present: the strings of 1 to MaxLen characters
FieldStrings == UNION {[1 .. k -> Chars] : k \in 1 .. MaxLen}

InitSim ==
  /\ sessions = <<>>
  /\ nextId = 0
  /\ now = 0
  /\ turns = 0
  /\ last = Call("init", UnknownId, NoInput, UnknownId, FALSE)
  /\ merges = <<>>
  /\ th = <<>>
  /\ base = <<>>
  /\ fold = <<>>
  /\ rank = <<>>
  /\ parse = <<>>
  /\ \E a \in FieldStrings, b \in FieldStrings :
       scoring = [pc |-> "start", str1 |-> a, str2 |-> b, similarity |-> 0]

\* the similarity of the two fields is calculated
FieldSimilarity ==
  /\ scoring.pc = "start"
  /\ scoring' = [scoring EXCEPT !.pc = "compared",
                                !.similarity = field_similarity(scoring.str1, scoring.str2)]
  /\ UNCHANGED <<storeVars, concVars, fold, rank, parse>>

NextSim == FieldSimilarity

SpecSim == InitSim /\ [][NextSim]_vars

\* ---- the two scorers
\* the weights of the descriptive scorer and of the identifier scorer, the
\* bonuses and the similarity a match must exceed, in hundredths
W_EQUIP == 35
W_LOCATION == 35
W_STATUS == 20
W_PRIORITY == 10
W_ITEMNO == 70
BONUS == 10
ITEMNO_BONUS == 20
HIGH_MATCH == 80

\* a field that holds None, as a string; "" is <<>>
NoValue == <<None>>
\* the truth value of a field
truthy(v) == v # NoValue /\ v # <<>>

\* "if parsed_input.f and notification[f]" as it would be if the field of
\* the query alone decided
appliedOfQuery(q, n) == truthy(q)
\* "if parsed_input.f and notification[f]": the field is scored
applied(q, n) == truthy(q) /\ truthy(n)

\* A score is num / (den * Unit): num is a sum of similarities (in units)
\* times weights (in hundredths), den is a sum of weights.  0.0 is 0 / 1.
Score(num, den) == [num |-> num, den |-> den]
\* "score / total_weight" as it would be if the weights of all the fields
\* were the divisor
weighted_averageOfAll(score, total_weight) == Score(score, 100)
\* "score / total_weight if total_weight > 0 else 0.0"
weighted_average(score, total_weight) ==
  IF total_weight > 0 THEN Score(score, total_weight) ELSE Score(0, 1)
\* min(final_score + bonus, 1.0), bonus in hundredths
with_bonus(final_score, bonus) ==
  LET one == final_score.den * Unit
      sum == final_score.num + (final_score.den * bonus * Unit) \div 100
  IN Score(IF sum < one THEN sum ELSE one, final_score.den)

\* match > 0.8 as it would be if 0.8 itself were enough
highOrEqual(match) == match * 100 >= HIGH_MATCH * Unit
\* match > 0.8
high(match) == match * 100 > HIGH_MATCH * Unit

\* what a scorer did: it raised, or it returned score; pre is final_score
\* before the bonus, bonus whether the bonus was added
Scored(raised, pre, bonus, score) ==
  [raised |-> raised, pre |-> pre, bonus |-> bonus, score |-> score]

\* _calculate_simple_similarity_score.  equip_match, location_match and
\* status_match are bound only where the field is scored; the test of the
\* bonus reads them from left to right, stops at the first that is not above
\* 0.8, and raises UnboundLocalError when it reads one that is not bound.
calculate_simple_similarity_score(parsed_input, notification) ==
  LET use_equip == applied(parsed_input.equipment_type, notification.equipType)
      use_location == applied(parsed_input.location, notification.location)
      use_status == applied(parsed_input.status_code, notification.statusCode)
      use_priority == applied(parsed_input.priority, notification.priority)
      equip_match == field_similarity(parsed_input.equipment_type, notification.equipType)
      location_match == field_similarity(parsed_input.location, notification.location)
      status_match == field_similarity(parsed_input.status_code, notification.statusCode)
      priority_match == field_similarity(parsed_input.priority, notification.priority)
      score == (IF use_equip THEN equip_match * W_EQUIP ELSE 0)
                 + (IF use_location THEN location_match * W_LOCATION ELSE 0)
                 + (IF use_status THEN status_match * W_STATUS ELSE 0)
                 + (IF use_priority THEN priority_match * W_PRIORITY ELSE 0)
      total_weight == (IF use_equip THEN W_EQUIP ELSE 0)
                        + (IF use_location THEN W_LOCATION ELSE 0)
                        + (IF use_status THEN W_STATUS ELSE 0)
                        + (IF use_priority THEN W_PRIORITY ELSE 0)
      final_score == weighted_average(score, total_weight)
      core == /\ truthy(parsed_input.equipment_type)
              /\ truthy(parsed_input.location)
              /\ truthy(parsed_input.status_code)
      unbound ==
        \/ ~use_equip
        \/ /\ high(equip_match)
           /\ \/ ~use_location
              \/ high(location_match) /\ ~use_status
      matched == /\ use_equip /\ high(equip_match)
                 /\ use_location /\ high(location_match)
                 /\ use_status /\ high(status_match)
  IN IF core /\ unbound THEN Scored(TRUE, final_score, FALSE, final_score)
     ELSE IF core /\ matched THEN Scored(FALSE, final_score, TRUE, with_bonus(final_score, BONUS))
     ELSE Scored(FALSE, final_score, FALSE, final_score)

\* "parsed_input.itemno.lower() == notification['itemno'].lower()" as it
\* would be without the lower()
same_itemnoWithCase(q, n) == q = n
\* parsed_input.itemno.lower() == notification['itemno'].lower()
same_itemno(q, n) == lower(q) = lower(n)

\* _calculate_itemno_similarity_score
calculate_itemno_similarity_score(parsed_input, notification) ==
  LET use_itemno == applied(parsed_input.itemno, notification.itemno)
      use_status == applied(parsed_input.status_code, notification.statusCode)
      use_priority == applied(parsed_input.priority, notification.priority)
      itemno_match == field_similarity(parsed_input.itemno, notification.itemno)
      status_match == field_similarity(parsed_input.status_code, notification.statusCode)
      priority_match == field_similarity(parsed_input.priority, notification.priority)
      score == (IF use_itemno THEN itemno_match * W_ITEMNO ELSE 0)
                 + (IF use_status THEN status_match * W_STATUS ELSE 0)
                 + (IF use_priority THEN priority_match * W_PRIORITY ELSE 0)
      total_weight == (IF use_itemno THEN W_ITEMNO ELSE 0)
                        + (IF use_status THEN W_STATUS ELSE 0)
                        + (IF use_priority THEN W_PRIORITY ELSE 0)
      final_score == weighted_average(score, total_weight)
      exact == /\ truthy(parsed_input.itemno) /\ truthy(notification.itemno)
               /\ same_itemno(parsed_input.itemno, notification.itemno)
  IN IF exact THEN Scored(FALSE, final_score, TRUE, with_bonus(final_score, ITEMNO_BONUS))
     ELSE Scored(FALSE, final_score, FALSE, final_score)

\* the fields of a query that the scorers read
Query(eq, loc, st, pri, item) ==
  [equipment_type |-> eq, location |-> loc, status_code |-> st, priority |-> pri,
   itemno |-> item]
\* the columns of a notification that the scorers read
Notification(eq, loc, st, pri, item) ==
  [equipType |-> eq, location |-> loc, statusCode |-> st, priority |-> pri,
   itemno |-> item]

\* the value of the fields of the queries; ParsedInput.priority is a str and
\* is never None
QueryValue == <<"A", " ", "b">>
\* the values of the columns: against the query's they score 1.0 (equal but
\* for the case), 0.83 and 0.8 (above and at the threshold of the bonus),
\* 0.55 and 0.1
ColumnValues ==
  {QueryValue, <<"a", " ">>, <<"b", " ", "a">>, <<"a", " ", "a">>, <<"b", "b">>}
Absent == {NoValue, <<>>}

NotScored == Scored(FALSE, Score(0, 1), FALSE, Score(0, 1))

InitScore ==
  /\ sessions = <<>>
  /\ nextId = 0
  /\ now = 0
  /\ turns = 0
  /\ last = Call("init", UnknownId, NoInput, UnknownId, FALSE)
  /\ merges = <<>>
  /\ th = <<>>
  /\ base = <<>>
  /\ fold = <<>>
  /\ rank = <<>>
  /\ parse = <<>>
  /\ \/ \E qe \in Absent \cup {QueryValue}, ql, qs \in {NoValue, QueryValue},
           qp \in {<<>>, QueryValue},
           ne, nl, ns \in Absent \cup ColumnValues,
           np \in Absent \cup {QueryValue, <<"b", "b">>} :
          scoring = [pc |-> "start", scenario |-> "S1",
                     query |-> Query(qe, ql, qs, qp, NoValue),
                     notification |-> Notification(ne, nl, ns, np, NoValue),
                     result |-> NotScored]
     \/ \E qi \in Absent \cup {QueryValue}, qs \in {NoValue, QueryValue},
           qp \in {<<>>, QueryValue},
           ni \in Absent \cup ColumnValues \cup {lower(QueryValue)},
           ns \in Absent \cup ColumnValues,
           np \in Absent \cup {QueryValue, <<"b", "b">>} :
          scoring = [pc |-> "start", scenario |-> "S2",
                     query |-> Query(NoValue, NoValue, qs, qp, qi),
                     notification |-> Notification(NoValue, NoValue, ns, np, ni),
                     result |-> NotScored]

\* get_recommendations scores a notification for a descriptive query
CalculateSimpleSimilarityScore ==
  /\ scoring.pc = "start"
  /\ scoring.scenario = "S1"
  /\ scoring' = [scoring EXCEPT
                   !.pc = "scored",
                   !.result = calculate_simple_similarity_score(scoring.query,
                                                                scoring.notification)]
  /\ UNCHANGED <<storeVars, concVars, fold, rank, parse>>

\* get_recommendations scores a notification for an identifier query
CalculateItemnoSimilarityScore ==
  /\ scoring.pc = "start"
  /\ scoring.scenario = "S2"
  /\ scoring' = [scoring EXCEPT
                   !.pc = "scored",
                   !.result = calculate_itemno_similarity_score(scoring.query,
                                                                scoring.notification)]
  /\ UNCHANGED <<storeVars, concVars, fold, rank, parse>>

NextScore ==
  \/ CalculateSimpleSimilarityScore
  \/ CalculateItemnoSimilarityScore

SpecScore == InitScore /\ [][NextScore]_vars

\* ------------------------------------------------- the scenario of an input
\* An utterance is the sequence of its characters.  "go", "jang" and "yo"
\* stand for three Hangul syllables (the first two spell a keyword), the
\* other characters for themselves.
UpperLetters == {"I", "T", "E", "M", "N", "O", "P", "R", "F", "C"}
LowerLetters == {"i", "t", "e", "m", "n", "o", "p", "r", "f", "c", "u", "y"}
Digits == {"0", "1", "2", "3", "4"}
Hangul == {"go", "jang", "yo"}

\* str.lower(), and the folding of re.IGNORECASE
LowerCase(c) ==
  CASE c = "I" -> "i" [] c = "T" -> "t" [] c = "E" -> "e" [] c = "M" -> "m"
    [] c = "N" -> "n" [] c = "O" -> "o" [] c = "P" -> "p" [] c = "R" -> "r"
    [] c = "F" -> "f" [] c = "C" -> "c" [] OTHER -> c
lower_input(s) == [i \in DOMAIN s |-> LowerCase(s[i])]

\* [A-Z] under re.IGNORECASE, \d, \w and \s
IsLetter(c) == c \in UpperLetters \cup LowerLetters
IsDigit(c) == c \in Digits
IsWord(c) == IsLetter(c) \/ IsDigit(c) \/ c \in Hangul
IsSpace(c) == c = " "

\* \b in front of s[i], a word character
WordStart(s, i) == i = 1 \/ ~IsWord(s[i - 1])
\* s[i .. j] are letters (digits, word characters, whitespace)
Letters(s, i, j) == j <= Len(s) /\ \A k \in i .. j : IsLetter(s[k])
DigitRun(s, i, j) == j <= Len(s) /\ \A k \in i .. j : IsDigit(s[k])
WordRun(s, i, j) == j <= Len(s) /\ \A k \in i .. j : IsWord(s[k])
SpaceRun(s, i, j) == j <= Len(s) /\ \A k \in i .. j : IsSpace(s[k])
\* the character s[i] exists and is c (is a digit, a word character)
At(s, i, c) == i <= Len(s) /\ s[i] = c
DigitAt(s, i) == i <= Len(s) /\ IsDigit(s[i])
WordAt(s, i) == i <= Len(s) /\ IsWord(s[i])

\* r'ITEMNO\s*\d+'
ItemnoPattern(s) ==
  \E i \in 1 .. Len(s) :
    /\ i + 5 <= Len(s)
    /\ lower_input(SubSeq(s, i, i + 5)) = <<"i", "t", "e", "m", "n", "o">>
    /\ \E j \in i + 6 .. Len(s) : SpaceRun(s, i + 6, j - 1) /\ IsDigit(s[j])
\* r'\b\d{4,}-\w+'
DigitsHyphenPattern(s) ==
  \E i \in 1 .. Len(s), n \in 4 .. Len(s) :
    /\ WordStart(s, i) /\ DigitRun(s, i, i + n - 1)
    /\ At(s, i + n, "-") /\ WordAt(s, i + n + 1)
\* r'\b[A-Z]-\w+\d+'
LetterHyphenPattern(s) ==
  \E i \in 1 .. Len(s) :
    /\ WordStart(s, i) /\ IsLetter(s[i]) /\ At(s, i + 1, "-")
    /\ \E j \in i + 3 .. Len(s) : WordRun(s, i + 2, j) /\ IsDigit(s[j])
\* r'\b[A-Z]{2,4}-\w+'
CodeHyphenPattern(s) ==
  \E i \in 1 .. Len(s), n \in 2 .. 4 :
    /\ WordStart(s, i) /\ Letters(s, i, i + n - 1)
    /\ At(s, i + n, "-") /\ WordAt(s, i + n + 1)
\* r'\b[A-Z]{2,4}\d+'
CodeDigitsPattern(s) ==
  \E i \in 1 .. Len(s), n \in 2 .. 4 :
    WordStart(s, i) /\ Letters(s, i, i + n - 1) /\ DigitAt(s, i + n)
\* r'\b\d{5,}'
LongNumberPattern(s) ==
  \E i \in 1 .. Len(s) : WordStart(s, i) /\ DigitRun(s, i, i + 4)
\* r'"[^"]*"'
QuotedPattern(s) ==
  \E i \in 1 .. Len(s), j \in 1 .. Len(s) : i < j /\ s[i] = "\"" /\ s[j] = "\""

\* re.search(pattern, user_input, re.IGNORECASE) for one of itemno_patterns
itemno_patterns(s) ==
  \/ ItemnoPattern(s)
  \/ DigitsHyphenPattern(s)
  \/ LetterHyphenPattern(s)
  \/ CodeHyphenPattern(s)
  \/ CodeDigitsPattern(s)
  \/ LongNumberPattern(s)
  \/ QuotedPattern(s)

\* two of the keywords: 'pump' and a Hangul one
keywords == {<<"p", "u", "m", "p">>, <<"go", "jang">>}
\* any(keyword.lower() in user_input.lower() for keyword in keywords)
any_keyword(s) ==
  \E keyword \in keywords :
    \E i \in 0 .. Len(s) - Len(keyword) :
      SubSeq(lower_input(s), i + 1, i + Len(keyword)) = lower_input(keyword)

\* _determine_scenario as it would be if the keywords were looked for first
determine_scenarioKeywordsFirst(user_input) ==
  IF any_keyword(user_input) THEN "S1"
  ELSE IF itemno_patterns(user_input) THEN "S2"
  ELSE "S1"

\* InputParser._determine_scenario
determine_scenario(user_input) ==
  IF itemno_patterns(user_input) THEN "S2"
  ELSE IF any_keyword(user_input) THEN "S1"
  ELSE "S1"

\* the pieces utterances are made of: codes, words, single characters
Pieces ==
  { <<"I", "T", "E", "M", "N", "O">>,
    <<"R", "F", "C", "C", "-", "0", "0", "1", "2", "3">>,
    <<"p", "u", "m", "p">>,
    <<"P", "u", "m", "p">>,
    <<"P", "E">>,
    <<"y">>,
    <<"1">>,
    <<"1", "2", "3", "4">>,
    <<"-">>,
    <<" ">>,
    <<"\"">>,
    <<"go", "jang">>,
    <<"yo">> }

RECURSIVE Joined(_)
\* the pieces, one after the other
Joined(pieces) ==
  IF pieces = <<>> THEN <<>> ELSE Head(pieces) \o Joined(Tail(pieces))

InitClassify ==
  /\ sessions = <<>>
  /\ nextId = 0
  /\ now = 0
  /\ turns = 0
  /\ last = Call("init", UnknownId, NoInput, UnknownId, FALSE)
  /\ merges = <<>>
  /\ th = <<>>
  /\ base = <<>>
  /\ fold = <<>>
  /\ rank = <<>>
  /\ scoring = <<>>
  /\ \E n \in 0 .. MaxPieces : \E pieces \in [1 .. n -> Pieces] :
       parse = [pc |-> "start", user_input |-> Joined(pieces), scenario |-> "-"]

\* parse_input: scenario = self._determine_scenario(user_input)
DetermineScenario ==
  /\ parse.pc = "start"
  /\ parse' = [parse EXCEPT !.pc = "determined",
                            !.scenario = determine_scenario(parse.user_input)]
  /\ UNCHANGED <<storeVars, concVars, fold, rank, scoring>>

NextClassify == DetermineScenario

SpecClassify == InitClassify /\ [][NextClassify]_vars

\* ------------------------------------- the scenario of an autocomplete input
\* [A-Z] without re.IGNORECASE
IsUpper(c) == c \in UpperLetters

RECURSIVE strip(_)
\* str.strip()
strip(s) ==
  IF s = <<>> THEN s
  ELSE IF IsSpace(Head(s)) THEN strip(Tail(s))
  ELSE IF IsSpace(s[Len(s)]) THEN strip(SubSeq(s, 1, Len(s) - 1))
  ELSE s

\* the four scenario2_patterns, at the character s[i]: [A-Z]-, [A-Z]{2,4}-,
\* \d{4,} and [A-Z]{2,4}\d, under re.IGNORECASE
scenario2_pattern_at(s, i) ==
  \/ i <= Len(s) /\ IsLetter(s[i]) /\ At(s, i + 1, "-")
  \/ \E n \in 2 .. 4 : Letters(s, i, i + n - 1) /\ At(s, i + n, "-")
  \/ DigitRun(s, i, i + 3)
  \/ \E n \in 2 .. 4 : Letters(s, i, i + n - 1) /\ DigitAt(s, i + n)

\* '-' in input_text and re.match(r'^[A-Z0-9\-"]+$', input_text)
hyphenated_code(s) ==
  /\ \E i \in 1 .. Len(s) : s[i] = "-"
  /\ s # <<>>
  /\ \A i \in 1 .. Len(s) : IsUpper(s[i]) \/ IsDigit(s[i]) \/ s[i] \in {"-", "\""}

\* ScenarioAnalyzer._is_itemno_pattern: re.match of the patterns, each of
\* which begins with ^, then the test for a hyphenated code
is_itemno_pattern(s) ==
  \/ s # <<>> /\ scenario2_pattern_at(s, 1)
  \/ hyphenated_code(s)

\* two of the scenario1_keywords and equipment_patterns: 'pump' and a Hangul
\* one
is_equipment_keyword(s) == any_keyword(s)

\* ScenarioAnalyzer.analyze_scenario: scenario_type and confidence, in
\* hundredths
analyze_scenario(input_text) ==
  IF strip(input_text) = <<>>
    THEN [scenario_type |-> "scenario1", confidence |-> 0]
  ELSE IF is_itemno_pattern(strip(input_text))
    THEN [scenario_type |-> "scenario2", confidence |-> 90]
  ELSE IF is_equipment_keyword(strip(input_text))
    THEN [scenario_type |-> "scenario1", confidence |-> 80]
  ELSE [scenario_type |-> "scenario1", confidence |-> 50]

\* the pieces autocomplete inputs are made of: a code, a process name, a
\* keyword, digits, separators
AnalyzerPieces ==
  { <<"R", "F", "C", "C", "-", "0", "0", "1", "2", "3">>,
    <<"R", "F", "C", "C">>,
    <<"p", "u", "m", "p">>,
    <<"P", "E">>,
    <<"y">>,
    <<"1">>,
    <<"1", "2", "3", "4">>,
    <<"-">>,
    <<" ">>,
    <<",", " ">>,
    <<"\"">>,
    <<"go", "jang">> }

InitAnalyze ==
  /\ sessions = <<>>
  /\ nextId = 0
  /\ now = 0
  /\ turns = 0
  /\ last = Call("init", UnknownId, NoInput, UnknownId, FALSE)
  /\ merges = <<>>
  /\ th = <<>>
  /\ base = <<>>
  /\ fold = <<>>
  /\ rank = <<>>
  /\ scoring = <<>>
  /\ \E n \in 0 .. MaxPieces : \E pieces \in [1 .. n -> AnalyzerPieces] :
       parse = [pc |-> "start", input_text |-> Joined(pieces),
                scenario_type |-> "-", confidence |-> 0]

\* scenario_analyzer.analyze_scenario(input_text)
AnalyzeScenario ==
  /\ parse.pc = "start"
  /\ parse' = [parse EXCEPT
                 !.pc = "analyzed",
                 !.scenario_type = analyze_scenario(parse.input_text).scenario_type,
                 !.confidence = analyze_scenario(parse.input_text).confidence]
  /\ UNCHANGED <<storeVars, concVars, fold, rank, scoring>>

NextAnalyze == AnalyzeScenario

SpecAnalyze == InitAnalyze /\ [][NextAnalyze]_vars

\* ------------------------------------------------------ the chat endpoints
\* what a chat call leaves in last: the call and the ChatResponse
ChatCall(op, sid, x, rid, ok, recommendations, missing_fields) ==
  [op |-> op, sid |-> sid, x |-> x, rid |-> rid, ok |-> ok,
   recommendations |-> recommendations, missing_fields |-> missing_fields,
   needs_additional_input |-> Len(missing_fields) > 0]

\* the lists recommender.get_recommendations can return, which depend on the
\* database: none, or some records
RecommenderResults == {<<>>, <<"r">>}

\* api/chat.py calls parser.parse_input(message, history, session_id) with
\* three arguments; InputParser.parse_input takes two, so the call raises
\* TypeError in every request and chat's except branch answers
parse_input_raises == TRUE

\* the session a request of chat or chat_v2 works on once the handler has
\* looked it up and, if it was not there, created it
SessionOfRequest(id) ==
  IF get_session_found(sessions, id, now) THEN id ELSE nextId + 1

\* the store after that lookup and creation
StoreOfRequest(id) ==
  LET kept == get_session_store(sessions, id, now)
  IN IF get_session_found(sessions, id, now) THEN kept
     ELSE Put(kept, nextId + 1, NewSession(nextId + 1, now))

\* the store after update_session on a session of it that has not timed out
StoreAfterUpdate(store, sid, x) ==
  LET session == store[sid]
      merged_clues == merge_with(session.accumulated_clues, x)
      new_status == determine_session_status(merged_clues, x)
  IN Put(store, sid, Updated(session, merged_clues, new_status, now))

\* POST /chat with a session id (backend/app/api/chat.py)
Chat(id, x, recs) ==
  LET found == get_session_found(sessions, id, now)
      sid == SessionOfRequest(id)
      store == StoreOfRequest(id)
      updated == StoreAfterUpdate(store, sid, x)
      clues == updated[sid].accumulated_clues
  IN /\ found \/ nextId + 1 \in SessionIds
     /\ nextId' = IF found THEN nextId ELSE sid
     /\ IF parse_input_raises
          THEN /\ sessions' = store
               /\ merges' = [j \in DOMAIN sessions' |->
                               IF j \in DOMAIN merges THEN merges[j] ELSE 0]
               /\ turns' = turns
               /\ recs = <<>>
               /\ last' = ChatCall("chat", id, x, sid, FALSE, <<>>, <<>>)
          ELSE /\ turns < MaxTurns
               /\ sessions' = updated
               /\ merges' = [j \in DOMAIN sessions' |->
                               IF j = sid THEN (IF found THEN merges[j] ELSE 0) + 1
                               ELSE merges[j]]
               /\ turns' = turns + 1
               /\ IF has_sufficient_info(clues) THEN TRUE ELSE recs = <<>>
               /\ last' = ChatCall("chat", id, x, sid, TRUE, recs,
                                   get_missing_fields(clues))
     /\ UNCHANGED <<now, concVars, fold, rank, scoring, parse>>

\* POST /chat without a session id: the single-turn branch
ChatNoSession(x, recs) ==
  /\ IF parse_input_raises
       THEN /\ recs = <<>>
            /\ last' = ChatCall("chat", UnknownId, x, UnknownId, FALSE, <<>>, <<>>)
       ELSE /\ IF has_sufficient_info(x) THEN TRUE ELSE recs = <<>>
            /\ last' = ChatCall("chat", UnknownId, x, UnknownId, TRUE, recs,
                                get_missing_fields(x))
  /\ UNCHANGED <<sessions, nextId, now, turns, merges, concVars, fold, rank, scoring, parse>>

\* POST /chat/v2 (test_env/backend/app/api/chat.py); a request without a
\* session id takes the path of one with an unknown id
ChatV2(id, x, recs) ==
  LET found == get_session_found(sessions, id, now)
      sid == SessionOfRequest(id)
      updated == StoreAfterUpdate(StoreOfRequest(id), sid, x)
      clues == updated[sid].accumulated_clues
  IN /\ turns < MaxTurns
     /\ found \/ nextId + 1 \in SessionIds
     /\ nextId' = IF found THEN nextId ELSE sid
     /\ sessions' = updated
     /\ merges' = [j \in DOMAIN sessions' |->
                     IF j = sid THEN (IF found THEN merges[j] ELSE 0) + 1
                     ELSE merges[j]]
     /\ turns' = turns + 1
     /\ IF has_sufficient_info(clues) \/ (x.scenario = "S2" /\ Truthy(clues.itemno))
          THEN TRUE ELSE recs = <<>>
     /\ last' = ChatCall("chat_v2", id, x, sid, TRUE, recs, get_missing_fields(clues))
     /\ UNCHANGED <<now, concVars, fold, rank, scoring, parse>>

NextChat ==
  \/ \E id \in CallerIds, x \in Turns, recs \in RecommenderResults : Chat(id, x, recs)
  \/ \E x \in Turns, recs \in RecommenderResults : ChatNoSession(x, recs)
  \/ \E id \in CallerIds, x \in Turns, recs \in RecommenderResults : ChatV2(id, x, recs)
  \/ Tick

SpecChat == Init /\ [][NextChat]_vars

\* ------------------------------------------------------------------ claims
\* the three fields a recommendation needs, and the four that carry a confidence
MainFields == {"location", "equipment_type", "status_code"}
ConfFields == MainFields \cup {"priority"}

\* the name of a field's confidence
ConfOf(f) ==
  CASE f = "location" -> "location_confidence"
    [] f = "equipment_type" -> "equipment_type_confidence"
    [] f = "status_code" -> "status_code_confidence"
    [] f = "priority" -> "priority_confidence"

\* a value is present (a field is populated): it is neither None nor empty
Present(v) == v \notin {None, ""}

\* the session is in the store and has not timed out
Live(d, id, t) == id \in DOMAIN d /\ t - d[id].last_updated <= SESSION_TIMEOUT

\* this step is a call of update_session
UpdateStep == last'.op = "update" /\ turns' = turns + 1

\* C1: merge takes the incoming value and the turn's confidence for location,
\* equipmentType and statusCode exactly when the incoming value is present and
\* the existing one is absent or the turn's confidence exceeds the stored one
\* by more than 0.1; otherwise value and confidence stay. A at 0.5 then B at
\* 0.55 keeps A; A at 0.5 then B at 0.65 switches to B.
C1_MergeRule ==
  fold.n > 0 =>
    /\ \A f \in MainFields :
         LET takes == /\ Present(fold.x[f])
                      /\ \/ ~Present(fold.prev[f])
                         \/ fold.x.confidence > fold.prev[ConfOf(f)] + 10
         IN IF takes
              THEN fold.cur[f] = fold.x[f] /\ fold.cur[ConfOf(f)] = fold.x.confidence
              ELSE fold.cur[f] = fold.prev[f]
                   /\ fold.cur[ConfOf(f)] = fold.prev[ConfOf(f)]
    /\ (fold.prev.location = "A" /\ fold.prev.location_confidence = 50
        /\ fold.x.location = "B")
         => /\ fold.x.confidence = 55 => fold.cur.location = "A"
            /\ fold.x.confidence = 65 => fold.cur.location = "B"

\* A at 0.5 was followed by B at 0.65 and B replaced it
C1_Witness ==
  /\ fold.n = 2
  /\ fold.prev.location = "A" /\ fold.prev.location_confidence = 50
  /\ fold.x.location = "B" /\ fold.x.confidence = 65
  /\ fold.cur.location = "B" /\ fold.cur.location_confidence = 65
  /\ fold.prev.status_code = "F" /\ fold.x.status_code = None

\* C2: right after an update whose turn carries an itemId, or made on a live
\* session whose clues already held one, the status is Finalizing.
C2_ItemIdFinalizes ==
  [][UpdateStep =>
       LET id == last'.sid
           x == last'.x
           s == sessions'[last'.rid]
       IN (\/ Present(x.itemno)
           \/ Live(sessions, id, now) /\ Present(sessions[id].accumulated_clues.itemno))
            => s.session_status = "finalizing"]_vars

\* a descriptive turn without identifier was merged into clues that held one
C2_Witness ==
  /\ last.op = "update" /\ last.sid = last.rid
  /\ last.x.scenario = "S1" /\ last.x.itemno = None /\ last.x.location = "A"
  /\ sessions[last.rid].accumulated_clues.itemno = "X"
  /\ sessions[last.rid].turn_count = 2
  /\ sessions[last.rid].session_status = "finalizing"

\* C3: after an update in which neither the turn nor the clues hold an itemId
\* the status is Recommending when location, equipmentType and statusCode are
\* all populated and CollectingInfo otherwise, whatever the scenario label.
C3_StatusWithoutItemId ==
  last.op = "update" =>
    LET s == sessions[last.rid]
        c == s.accumulated_clues
    IN (~Present(last.x.itemno) /\ ~Present(c.itemno))
         => s.session_status =
              IF \A f \in MainFields : Present(c[f])
                THEN "recommending" ELSE "collecting_info"

\* C4: once a session is Completed, an update on its id merges nothing: clues,
\* turnCount and status stay as they are while the session is in the store.
C4_CompletedIsTerminal ==
  [][UpdateStep =>
       \A id \in DOMAIN sessions \cap DOMAIN sessions' :
         (sessions[id].session_status = "completed" /\ last'.sid = id)
           => /\ sessions'[id].accumulated_clues = sessions[id].accumulated_clues
              /\ sessions'[id].turn_count = sessions[id].turn_count
              /\ sessions'[id].session_status = "completed"]_vars

\* a session after update_session has run on it with x
AfterUpdate(session, x) ==
  LET merged == merge_with(session.accumulated_clues, x)
  IN Updated(session, merged, determine_session_status(merged, x), now)

\* C5: two update calls on one session that overlap leave the session as
\* running them one after the other, in one of the two orders, would leave it:
\* both merges are in the clues and turnCount has grown by exactly 2.
C5_NoLostUpdate ==
  ((\A t \in Threads : th[t].pc = "idle")
   /\ Len(base.calls) = 2
   /\ base.calls[1].id = base.calls[2].id
   /\ base.calls[1].id \in DOMAIN base.store)
    => LET id == base.calls[1].id
           b == base.store[id]
           x1 == base.calls[1].x
           x2 == base.calls[2].x
       IN /\ id \in DOMAIN sessions
          /\ sessions[id] \in {AfterUpdate(AfterUpdate(b, x1), x2),
                               AfterUpdate(AfterUpdate(b, x2), x1)}
          /\ sessions[id].turn_count = b.turn_count + 2

\* C6: the turnCount of every stored session is the number of updates merged
\* into it since it was created; no other call changes it.
C6_TurnCountCountsMerges ==
  /\ DOMAIN merges = DOMAIN sessions
  /\ \A id \in DOMAIN sessions : sessions[id].turn_count = merges[id]

\* a session that was updated twice and then finalized
C6_Witness ==
  \E id \in DOMAIN sessions :
    /\ sessions[id].turn_count = 2
    /\ sessions[id].session_status = "completed"
    /\ last.op = "get" /\ last.sid = id /\ last.ok

\* what merging a turn into empty clues gives, field by field
FreshClues(x) ==
  [location |-> IF Present(x.location) THEN x.location ELSE None,
   location_confidence |-> IF Present(x.location) THEN x.confidence ELSE 0,
   equipment_type |-> IF Present(x.equipment_type) THEN x.equipment_type ELSE None,
   equipment_type_confidence |-> IF Present(x.equipment_type) THEN x.confidence ELSE 0,
   status_code |-> IF Present(x.status_code) THEN x.status_code ELSE None,
   status_code_confidence |-> IF Present(x.status_code) THEN x.confidence ELSE 0,
   priority |-> IF Present(x.priority) /\ x.priority # DEFAULT_PRIORITY
                  THEN x.priority ELSE None,
   priority_confidence |-> IF Present(x.priority) /\ x.priority # DEFAULT_PRIORITY
                             THEN x.confidence ELSE 0,
   itemno |-> IF Present(x.itemno) THEN x.itemno ELSE None]

\* C7: an update on an id that is unknown or has timed out returns a fresh
\* session: its clues are the turn merged into empty clues, its status is the
\* one those clues and the turn determine, its turnCount is 1, and the session
\* that timed out is gone from the store.
C7_UpdateRecreates ==
  [][(UpdateStep /\ ~Live(sessions, last'.sid, now)) =>
       LET x == last'.x
           rid == last'.rid
       IN /\ last'.ok
          /\ rid \notin DOMAIN sessions
          /\ rid \in DOMAIN sessions'
          /\ last'.sid \notin DOMAIN sessions'
          /\ sessions'[rid].accumulated_clues = FreshClues(x)
          /\ sessions'[rid].session_status =
               determine_session_status(FreshClues(x), x)
          /\ sessions'[rid].turn_count = 1
          /\ sessions'[rid].last_updated = now]_vars

\* an update on the id of a session that held location A came back, after the
\* timeout, with a fresh session that holds only what the turn carried
C7_Witness ==
  /\ last.op = "update" /\ last.sid = 1 /\ last.rid = 2
  /\ now = 35 /\ turns = 2
  /\ DOMAIN sessions = {2}
  /\ sessions[2].turn_count = 1
  /\ sessions[2].accumulated_clues.location = None
  /\ sessions[2].accumulated_clues.status_code = "F"

\* C8: get returns nothing and removes the entry when now - lastUpdatedAt is
\* more than the timeout; up to and including the timeout it returns the stored
\* session and removes nothing; for an id not in the store it returns nothing.
C8_GetExpiry ==
  [][(last'.op = "get") =>
       LET id == last'.sid IN
         IF id \notin DOMAIN sessions
           THEN ~last'.ok /\ sessions' = sessions
         ELSE IF now - sessions[id].last_updated > SESSION_TIMEOUT
           THEN /\ ~last'.ok
                /\ DOMAIN sessions' = DOMAIN sessions \ {id}
                /\ \A j \in DOMAIN sessions' : sessions'[j] = sessions[j]
         ELSE last'.ok /\ last'.rid = id /\ sessions' = sessions]_vars

\* a get exactly at the timeout returned the session
C8_Witness ==
  /\ last.op = "get" /\ last.ok
  /\ last.rid \in DOMAIN sessions
  /\ now - sessions[last.rid].last_updated = SESSION_TIMEOUT

\* the first turn of the example, location only at 0.9, and the second,
\* equipmentType and statusCode at 0.85
TurnOne == ParsedInput("S1", "A", None, None, DEFAULT_PRIORITY, None, 90)
TurnTwo == ParsedInput("S1", None, "P", "F", DEFAULT_PRIORITY, None, 85)

\* C9: an update on a live session keeps value and confidence of every
\* populated field for which the turn carries nothing. Turn 1 with location
\* only at 0.9 gives CollectingInfo and missing [equipmentType, statusCode];
\* turn 2 with equipmentType and statusCode at 0.85 gives complete clues,
\* Recommending and turnCount 2.
C9_CluesAccumulate ==
  [][(UpdateStep /\ Live(sessions, last'.sid, now)) =>
       LET id == last'.sid
           x == last'.x
           old == sessions[id]
           new == sessions'[id]
       IN /\ last'.rid = id
          /\ \A f \in ConfFields :
               (Present(old.accumulated_clues[f]) /\ ~Present(x[f]))
                 => /\ new.accumulated_clues[f] = old.accumulated_clues[f]
                    /\ new.accumulated_clues[ConfOf(f)]
                         = old.accumulated_clues[ConfOf(f)]
          /\ (old.turn_count = 0 /\ old.accumulated_clues = EmptyClues /\ x = TurnOne)
               => /\ new.session_status = "collecting_info"
                  /\ get_missing_fields(new.accumulated_clues)
                       = <<"equipment_type", "status_code">>
                  /\ new.turn_count = 1
          /\ (old.turn_count = 1 /\ old.accumulated_clues = FreshClues(TurnOne)
              /\ x = TurnTwo)
               => /\ new.accumulated_clues =
                       [FreshClues(TurnTwo) EXCEPT !.location = "A",
                                                   !.location_confidence = 90]
                  /\ get_missing_fields(new.accumulated_clues) = <<>>
                  /\ new.session_status = "recommending"
                  /\ new.turn_count = 2]_vars

\* the two turns of the example were made on one session
C9_Witness ==
  /\ last.op = "update" /\ last.x = TurnTwo /\ last.sid = last.rid
  /\ sessions[last.rid].turn_count = 2
  /\ sessions[last.rid].session_status = "recommending"
  /\ sessions[last.rid].accumulated_clues.location = "A"
  /\ sessions[last.rid].accumulated_clues.location_confidence = 90
  /\ sessions[last.rid].accumulated_clues.equipment_type_confidence = 85

\* C10: in every stored session each of the four fields that is populated has
\* a confidence in [0,1] and each that is empty has confidence 0.0.
C10_ConfidenceInvariant ==
  \A id \in DOMAIN sessions :
    \A f \in ConfFields :
      LET c == sessions[id].accumulated_clues IN
        IF Present(c[f])
          THEN 0 <= c[ConfOf(f)] /\ c[ConfOf(f)] <= 100
          ELSE c[ConfOf(f)] = 0

\* a session with a field populated at confidence 0.0, one at 1.0 and the
\* others empty
C10_Witness ==
  \E id \in DOMAIN sessions :
    LET c == sessions[id].accumulated_clues IN
      /\ c.status_code = "F" /\ c.status_code_confidence = 0
      /\ c.priority = "urgent" /\ c.priority_confidence = 100
      /\ c.location = None /\ c.location_confidence = 0

\* C11: create adds exactly one entry, under a returned id that no stored
\* session has, with empty clues (every confidence 0.0, no itemId), status
\* CollectingInfo and turnCount 0, and leaves the existing sessions as they were.
C11_CreateAddsFreshSession ==
  [][(last'.op = "create") =>
       LET id == last'.rid
           s == sessions'[id]
           c == s.accumulated_clues
       IN /\ id \notin DOMAIN sessions
          /\ DOMAIN sessions' = DOMAIN sessions \cup {id}
          /\ \A j \in DOMAIN sessions : sessions'[j] = sessions[j]
          /\ \A f \in ConfFields : c[f] = None /\ c[ConfOf(f)] = 0
          /\ c.itemno = None
          /\ s.session_id = id
          /\ s.session_status = "collecting_info"
          /\ s.turn_count = 0]_vars

\* a second session was created next to one that holds clues
C11_Witness ==
  /\ last.op = "create" /\ last.rid = 2
  /\ DOMAIN sessions = {1, 2}
  /\ sessions[1].turn_count = 2
  /\ sessions[1].accumulated_clues.location = "A"
  /\ sessions[2].turn_count = 0

\* C12: after cleanupExpired the store holds exactly the sessions that had
\* now - lastUpdatedAt <= timeout and had not been Completed for more than 5
\* minutes; the others are removed and the survivors are unchanged.
C12_CleanupRemovesExpired ==
  [][(last'.op = "cleanup") =>
       /\ DOMAIN sessions' =
            {id \in DOMAIN sessions :
               /\ now - sessions[id].last_updated <= 30
               /\ ~(sessions[id].session_status = "completed"
                    /\ now - sessions[id].last_updated > 5)}
       /\ \A id \in DOMAIN sessions' : sessions'[id] = sessions[id]]_vars

\* a cleanup at 35 kept a session completed 5 minutes before, next to which a
\* second session had been issued
C12_Witness ==
  /\ last.op = "cleanup" /\ now = 35 /\ nextId = 2
  /\ DOMAIN sessions = {2}
  /\ sessions[2].session_status = "completed"
  /\ sessions[2].last_updated = 30

\* C13: merge returns a new AccumulatedClues and leaves its two inputs as they
\* were, so the stored clues of a session change only in the step in which
\* update assigns the merge result to the session.
C13_MergeIsPure ==
  [][/\ \A t \in Threads :
          (th[t].pc = "merge" /\ th'[t].pc = "assign_clues")
            => /\ sessions' = sessions
               /\ th'[t].x = th[t].x
               /\ th'[t].merged_clues
                    = merge_with(sessions[th[t].session].accumulated_clues, th[t].x)
     /\ \A id \in DOMAIN sessions \cap DOMAIN sessions' :
          sessions'[id].accumulated_clues # sessions[id].accumulated_clues
            => \E t \in Threads :
                 /\ th[t].pc = "assign_clues" /\ th'[t].pc = "assign_status"
                 /\ th[t].session = id
                 /\ sessions'[id].accumulated_clues = th[t].merged_clues]_vars

\* a thread holds a merge result that differs from the stored clues, which
\* the merge has left as they were
C13_Witness ==
  \E t \in Threads :
    /\ th[t].pc = "assign_clues"
    /\ th[t].merged_clues.location = "A"
    /\ sessions[th[t].session].accumulated_clues = EmptyClues
    /\ sessions[th[t].session].turn_count = 0

\* C14: merge never stores the default priority: an incoming priority equal to
\* the default leaves the accumulated priority and its confidence as they
\* were whatever the confidences are, any other incoming priority follows the
\* present / absent / margin rule of the other fields, and the accumulated
\* priority is never the default.
C14_DefaultPriorityNotStored ==
  fold.n > 0 =>
    /\ fold.x.priority = DEFAULT_PRIORITY
         => /\ fold.cur.priority = fold.prev.priority
            /\ fold.cur.priority_confidence = fold.prev.priority_confidence
    /\ fold.x.priority # DEFAULT_PRIORITY
         => LET takes == /\ Present(fold.x.priority)
                         /\ \/ ~Present(fold.prev.priority)
                            \/ fold.x.confidence > fold.prev.priority_confidence + 10
            IN IF takes
                 THEN /\ fold.cur.priority = fold.x.priority
                      /\ fold.cur.priority_confidence = fold.x.confidence
                 ELSE /\ fold.cur.priority = fold.prev.priority
                      /\ fold.cur.priority_confidence = fold.prev.priority_confidence
    /\ fold.cur.priority # DEFAULT_PRIORITY
    /\ fold.prev.priority # DEFAULT_PRIORITY

\* the default priority came at 1.0 on a priority stated at 0.5, which stayed
C14_Witness ==
  /\ fold.n = 2
  /\ fold.prev.priority = "urgent" /\ fold.prev.priority_confidence = 50
  /\ fold.x.priority = DEFAULT_PRIORITY /\ fold.x.confidence = 100
  /\ fold.cur.priority = "urgent" /\ fold.cur.priority_confidence = 50

\* C15: merge overwrites the accumulated itemId with the incoming one whenever
\* the incoming one is present, whatever the turn's confidence, and leaves it
\* as it was when the incoming one is absent.
C15_ItemIdLastWriteWins ==
  fold.n > 0 =>
    fold.cur.itemno = IF Present(fold.x.itemno) THEN fold.x.itemno ELSE fold.prev.itemno

\* a second itemId came at confidence 0.0 and replaced the first
C15_Witness ==
  /\ fold.n = 2
  /\ fold.prev.itemno = "X"
  /\ fold.x.itemno = "Y" /\ fold.x.confidence = 0
  /\ fold.cur.itemno = "Y"

\* C16: in every session turn after which location, equipmentType or
\* statusCode is unpopulated in the accumulated clues, the turn returns an
\* empty recommendation list and a missingFields list that names exactly the
\* unpopulated fields among the three.
C16_InsufficientInfoIsAResult ==
  (last.op \in {"chat", "chat_v2"} /\ last.rid \in DOMAIN sessions) =>
    LET c == sessions[last.rid].accumulated_clues
        unpopulated == {f \in MainFields : ~Present(c[f])}
    IN unpopulated # {}
         => /\ last.recommendations = <<>>
            /\ Len(last.missing_fields) = Cardinality(unpopulated)
            /\ {last.missing_fields[i] : i \in 1 .. Len(last.missing_fields)}
                 = unpopulated

\* the rows of a sequence
Range(q) == {q[i] : i \in DOMAIN q}

\* the place of a row in a sequence that holds it once
PlaceIn(q, r) == CHOOSE i \in DOMAIN q : q[i] = r

\* the candidates the provider holds for the query of the call
Candidates ==
  {r \in Range(rank.table) : IF rank.by_itemno THEN r.item # "none" ELSE r.matches}

\* search_similar_notifications has run, alone or within get_recommendations
Searched == rank.pc = "searched" \/ (rank.pc = "recommended" /\ ~rank.by_itemno)

\* C17: rank cuts by score before it cuts by count: with N the number of
\* candidates the provider holds for the query that score above 0.2, it
\* returns exactly the min(N, 5) highest-scoring of them; a candidate above
\* 0.2 is left out only when 5 others score at least as much.  (Stated for
\* the queries for which the provider holds a candidate.)
C17_CutoffBeforeCount ==
  (rank.pc = "recommended" /\ Candidates # {}) =>
    LET above == {r \in Candidates : r.score > 20}
        N == Cardinality(above)
        out == Range(rank.recommendations)
    IN /\ Len(rank.recommendations) = (IF N < 5 THEN N ELSE 5)
       /\ Cardinality(out) = Len(rank.recommendations)
       /\ out \subseteq above
       /\ \A r \in out, c \in above \ out : c.score <= r.score

\* C18: band on a list of N >= 1 items returns the first min(N, 5) items in
\* unchanged order: all N for 1 <= N <= 5, the top 5 for 6 <= N <= 15, the
\* top 5 of the top 15 for N > 15.
C18_BandKeepsFirstFive ==
  (Searched /\ Len(rank.results) >= 1) =>
    LET N == Len(rank.results)
        out == rank.similar
    IN /\ Len(out) = (IF N < 5 THEN N ELSE 5)
       /\ \A i \in 1 .. Len(out) : out[i] = rank.results[i]
       /\ (1 <= N /\ N <= 5) => out = rank.results
       /\ (6 <= N /\ N <= 15) => out = SubSeq(rank.results, 1, 5)
       /\ N > 15 => out = SubSeq(SubSeq(rank.results, 1, 15), 1, 5)

\* a list of 17 rows sorted by descending score came back as its first 5
C18_Witness ==
  /\ rank.pc = "searched"
  /\ Len(rank.results) = 17
  /\ \A i \in 1 .. 16 : rank.results[i].score >= rank.results[i + 1].score
  /\ Len(rank.similar) = 5
  /\ rank.similar[5].id = 5

\* C19: when no candidate matches the query the banding step returns the
\* empty list, and no records unrelated to the query in its place.
C19_NoMatchGivesEmptyList ==
  (Searched /\ Len(rank.results) = 0) => rank.similar = <<>>

Retained ==
  {r \in Range(rank.similar) : ~ScorerRaises(r, rank.by_itemno) /\ AboveCutoff(r)}

ThreeCases(a, b, Blend(_, _)) ==
  IF a = b THEN Unit
  ELSE IF In(a, b) \/ In(b, a) THEN
    LET shorter == IF Len(a) < Len(b) THEN Len(a) ELSE Len(b)
        longer == IF Len(a) > Len(b) THEN Len(a) ELSE Len(b)
    IN (7 * Unit) \div 10 + (2 * shorter * Unit) \div (10 * longer)
  ELSE Blend(a, b)

\* 0.7 (shared tokens / distinct tokens) + 0.3 (1 - levenshtein / max length)
TokenEditBlend(a, b) ==
  LET shared == Cardinality(split(a) \cap split(b))
      distinct == Cardinality(split(a) \cup split(b))
      longer == IF Len(a) > Len(b) THEN Len(a) ELSE Len(b)
  IN (IF distinct = 0 THEN 0 ELSE (7 * shared * Unit) \div (10 * distinct))
       + (3 * (longer - distance(a, b)) * Unit) \div (10 * longer)

\* the blend, and 0 when one of the strings holds no token
TokenEditBlendOfTokens(a, b) ==
  IF split(a) = {} \/ split(b) = {} THEN 0 ELSE TokenEditBlend(a, b)

\* C29 as claimed: the similarity of two fields is 1.0 when they are equal
\* ignoring case, otherwise 0.7 + 0.2 len(shorter)/len(longer) when one
\* contains the other, otherwise 0.7 (shared tokens / distinct tokens) +
\* 0.3 (1 - levenshtein/max length).
C29_ThreeCases ==
  scoring.pc = "compared" =>
    scoring.similarity
      = ThreeCases(lower(scoring.str1), lower(scoring.str2), TokenEditBlend)

\* C29 as amended: as claimed, but in the third case the similarity is 0 when
\* one of the strings holds no token (it is whitespace only).
C29_ThreeCasesOfTokens ==
  scoring.pc = "compared" =>
    scoring.similarity
      = ThreeCases(lower(scoring.str1), lower(scoring.str2), TokenEditBlendOfTokens)

\* two blanks against "a b": neither contains the other, one edit in three
\* characters is spared, and the similarity is 0
C29_Witness ==
  /\ scoring.pc = "compared"
  /\ scoring.str1 = <<" ", " ">>
  /\ scoring.str2 = <<"a", " ", "b">>
  /\ distance(scoring.str1, scoring.str2) = 2
  /\ scoring.similarity = 0

\* ---- the scorers
\* the fields the descriptive scorer and the identifier scorer compare, the
\* column a field is compared with, and its weight in hundredths
DescriptiveFields == {"equipment_type", "location", "status_code", "priority"}
CoreFields == {"equipment_type", "location", "status_code"}
IdentifierFields == {"itemno", "status_code", "priority"}
ColumnOf(f) ==
  CASE f = "equipment_type" -> "equipType"
    [] f = "location" -> "location"
    [] f = "status_code" -> "statusCode"
    [] f = "priority" -> "priority"
    [] f = "itemno" -> "itemno"
WeightOf(f) ==
  CASE f = "equipment_type" -> 35
    [] f = "location" -> 35
    [] f = "status_code" -> 20
    [] f = "priority" -> 10
    [] f = "itemno" -> 70

QueryHolds(f) == scoring.query[f] \notin {NoValue, <<>>}
CandidateHolds(f) == scoring.notification[ColumnOf(f)] \notin {NoValue, <<>>}
\* the fields of F present on both sides
OnBothSides(F) == {f \in F : QueryHolds(f) /\ CandidateHolds(f)}
\* the similarity of the query's f and the candidate's
SimOf(f) == field_similarity(scoring.query[f], scoring.notification[ColumnOf(f)])
Above08(f) == 10 * SimOf(f) > 8 * Unit

RECURSIVE WeightSum(_)
WeightSum(F) ==
  IF F = {} THEN 0
  ELSE LET f == CHOOSE g \in F : TRUE IN WeightOf(f) + WeightSum(F \ {f})
RECURSIVE WeightedSimSum(_)
WeightedSimSum(F) ==
  IF F = {} THEN 0
  ELSE LET f == CHOOSE g \in F : TRUE IN WeightOf(f) * SimOf(f) + WeightedSimSum(F \ {f})

\* x, a score, is the weight-normalised weighted sum over the fields F, and
\* 0 when F is empty
IsWeightedAverage(x, F) ==
  IF F = {} THEN x.num = 0
  ELSE x.num * WeightSum(F) = WeightedSimSum(F) * x.den
\* y is min(x + hundredths/100, 1.0)
IsCappedSum(y, x, hundredths) ==
  LET sum == 100 * x.num + hundredths * x.den * Unit
      one == 100 * x.den * Unit
  IN y.den = x.den /\ 100 * y.num = (IF sum < one THEN sum ELSE one)

ScoredAs(scenario) == scoring.pc = "scored" /\ scoring.scenario = scenario

\* C22: in the descriptive scenario the score before the bonus is the sum of
\* weight times similarity over those of equipmentType (0.35), location
\* (0.35), statusCode (0.20) and priority (0.10) that are present on both
\* sides, divided by the sum of the weights applied; it is 0 when no field is
\* applied.
C22_WeightedAverage ==
  ScoredAs("S1") =>
    IsWeightedAverage(scoring.result.pre, OnBothSides(DescriptiveFields))

\* the candidate has no location: the score is that of the three other
\* fields, (0.35 * 0.1 + 0.2 * 1.0 + 0.1 * 1.0) / 0.65
C22_Witness ==
  /\ ScoredAs("S1")
  /\ \A f \in DescriptiveFields : QueryHolds(f)
  /\ OnBothSides(DescriptiveFields) = {"equipment_type", "status_code", "priority"}
  /\ scoring.notification.equipType = <<"b", "b">>
  /\ scoring.result.pre.den = 65
  /\ 10 * scoring.result.pre.num = 35 * Unit + 300 * Unit
  /\ ~scoring.result.raised

\* C23: scoring a query that has location, equipmentType and statusCode
\* against a candidate in which one of those fields is absent yields a score
\* and never a failure.
C23_ScoringIsTotal ==
  (/\ ScoredAs("S1")
   /\ \A f \in CoreFields : QueryHolds(f)
   /\ \E f \in CoreFields : ~CandidateHolds(f))
    => ~scoring.result.raised

\* C24 as claimed: the bonus is added if and only if every field used in
\* scoring, priority included, whichever fields they are, has a similarity
\* above 0.8 (checked where the scorer returns).
C24_BonusOfEveryFieldUsed ==
  (ScoredAs("S1") /\ ~scoring.result.raised) =>
    LET used == OnBothSides(DescriptiveFields)
    IN scoring.result.bonus <=> (used # {} /\ \A f \in used : Above08(f))

\* C24 as amended: the bonus (+0.10, capped at 1.0) is added if and only if
\* equipmentType, location and statusCode are each present on both sides with
\* a similarity above 0.8; priority plays no part.
C24_BonusOfCoreFields ==
  ScoredAs("S1") =>
    /\ scoring.result.bonus
         <=> \A f \in CoreFields : QueryHolds(f) /\ CandidateHolds(f) /\ Above08(f)
    /\ scoring.result.bonus => ~scoring.result.raised
    /\ IF scoring.result.bonus
       THEN IsCappedSum(scoring.result.score, scoring.result.pre, 10)
       ELSE scoring.result.score = scoring.result.pre

\* the three core fields score 1.0, 0.83 and 1.0, the priority 0.1: the
\* bonus is added, to (0.35 + 0.35 * 0.83 + 0.2 + 0.1 * 0.1) / 1.0
C24_Witness ==
  /\ ScoredAs("S1")
  /\ OnBothSides(DescriptiveFields) = DescriptiveFields
  /\ scoring.notification.location = <<"a", " ">>
  /\ ~Above08("priority")
  /\ scoring.result.bonus
  /\ scoring.result.score.num > scoring.result.pre.num
  /\ scoring.result.score.num < scoring.result.score.den * Unit

\* C25: for every query, every candidate and both scenarios the score lies
\* in [0,1], the bonus included.
C25_ScoreInUnitInterval ==
  scoring.pc = "scored" =>
    /\ ~scoring.result.raised
    /\ 0 <= scoring.result.score.num
    /\ scoring.result.score.num <= scoring.result.score.den * Unit

\* every field of the query is identical to the candidate's
Identical ==
  \A f \in DescriptiveFields \cup IdentifierFields :
    scoring.query[f] = scoring.notification[ColumnOf(f)]
FieldsOfScenario ==
  IF scoring.scenario = "S1" THEN DescriptiveFields ELSE IdentifierFields
AtLeast09(x) == 10 * x.num >= 9 * x.den * Unit

\* C26 as claimed: when every field of the query is identical to the
\* corresponding field of the candidate, the score after the bonus is at
\* least 0.9.
C26_Identity ==
  (scoring.pc = "scored" /\ Identical) =>
    ~scoring.result.raised /\ AtLeast09(scoring.result.score)

\* C26 as amended: when every field of the query is identical to the
\* corresponding field of the candidate and at least one of the fields the
\* scorer compares is present, the score after the bonus is at least 0.9.
C26_IdentityOfAField ==
  (scoring.pc = "scored" /\ Identical /\ OnBothSides(FieldsOfScenario) # {}) =>
    ~scoring.result.raised /\ AtLeast09(scoring.result.score)

\* query and candidate hold the same location and nothing else: the score
\* is 1.0, without a bonus
C26_Witness ==
  /\ ScoredAs("S1") /\ Identical
  /\ OnBothSides(DescriptiveFields) = {"location"}
  /\ ~scoring.result.bonus /\ ~scoring.result.raised
  /\ scoring.result.score = [num |-> 35 * Unit, den |-> 35]

\* a and b share no token, neither contains the other, and their edit
\* distance is at least half the length of the longer
Dissimilar(a, b) ==
  /\ split(a) \cap split(b) = {}
  /\ ~In(a, b) /\ ~In(b, a)
  /\ 2 * distance(a, b) >= (IF Len(a) > Len(b) THEN Len(a) ELSE Len(b))

\* C27: when the values of every field compared share no token, neither
\* contains the other and their edit distance is at least half the length
\* of the longer, the score is strictly below 0.3.
C27_DissimilarScoresLow ==
  (/\ scoring.pc = "scored"
   /\ \A f \in OnBothSides(FieldsOfScenario) :
        Dissimilar(lower(scoring.query[f]), lower(scoring.notification[ColumnOf(f)])))
    => /\ ~scoring.result.raised
       /\ 10 * scoring.result.score.num < 3 * scoring.result.score.den * Unit

\* the item ids are present and equal ignoring case
ExactItemId ==
  /\ QueryHolds("itemno") /\ CandidateHolds("itemno")
  /\ lower(scoring.query.itemno) = lower(scoring.notification.itemno)

\* C28 as claimed: in the identifier scenario the score is the
\* weight-normalised weighted sum with weights itemId 0.70, statusCode 0.20
\* and priority 0.10 over the fields present on both sides, and nothing else
\* contributes to it.
C28_WeightedAverageOnly ==
  ScoredAs("S2") =>
    /\ ~scoring.result.raised
    /\ IsWeightedAverage(scoring.result.score, OnBothSides(IdentifierFields))

\* C28 as amended: in the identifier scenario the score is that weighted sum,
\* plus 0.2 and capped at 1.0 when the item ids are equal ignoring case.
C28_WeightedAveragePlusExactItemId ==
  ScoredAs("S2") =>
    /\ ~scoring.result.raised
    /\ IsWeightedAverage(scoring.result.pre, OnBothSides(IdentifierFields))
    /\ IF ExactItemId
       THEN IsCappedSum(scoring.result.score, scoring.result.pre, 20)
       ELSE scoring.result.score = scoring.result.pre

\* the item ids differ in case only and the status codes score 0.1: the
\* weighted sum is (0.7 + 0.02) / 0.9 = 0.8 and the score is 1.0
C28_Witness ==
  /\ ScoredAs("S2")
  /\ scoring.query.itemno = QueryValue
  /\ scoring.notification.itemno = lower(QueryValue)
  /\ OnBothSides(IdentifierFields) = {"itemno", "status_code"}
  /\ 10 * scoring.result.pre.num = 8 * scoring.result.pre.den * Unit
  /\ scoring.result.score.num = scoring.result.score.den * Unit

\* ---- the scenario of an input
\* the code of the claim's example, and a keyword followed by it
RFCC_00123 == <<"R", "F", "C", "C", "-", "0", "0", "1", "2", "3">>
KeywordAndCode == <<"p", "u", "m", "p", " ">> \o RFCC_00123

C31_UpdateKeepsCallerId ==
  last.op = "update" =>
    /\ last.rid = last.sid
    /\ get_session_found(sessions, last.sid, now)
    /\ sessions[last.sid].session_id = last.sid

\* C32: when cleanup_expired_sessions or an expiring get_session runs
\* interleaved with an update_session on the same id, no update is lost to
\* eviction: an update that returns leaves its session in the store with the
\* merged clues, and a removal takes only a session that is past its timeout
\* (or completed long ago) at the moment of the removal.
C32_NoUpdateLostToEviction ==
  [][/\ UpdateStep =>
          /\ last'.rid \in DOMAIN sessions'
          /\ sessions'[last'.rid].accumulated_clues = th.update.merged_clues
     /\ \A id \in DOMAIN sessions \ DOMAIN sessions' :
          TimedOut(sessions[id], now) \/ CompletedLongAgo(sessions[id], now)]_vars

\* C33: across the updates of one session, a populated field (location,
\* equipmentType, statusCode, priority) changes its value only in an update
\* whose confidence exceeds the stored one by more than 0.1; hence the
\* confidence of a populated field never decreases, and a field stored at 0.9
\* or higher keeps its value whatever later turns extract.
C33_PopulatedFieldIsSticky ==
  fold.n > 0 =>
    \A f \in ConfFields :
      Present(fold.prev[f]) =>
        /\ fold.cur[f] # fold.prev[f]
             => fold.x.confidence > fold.prev[ConfOf(f)] + MARGIN
        /\ fold.cur[ConfOf(f)] >= fold.prev[ConfOf(f)]
        /\ fold.prev[ConfOf(f)] >= 90 => fold.cur[f] = fold.prev[f]

\* a location stored at 0.9 met another location at 1.0 and stayed
C33_Witness ==
  /\ fold.n = 2
  /\ fold.prev.location = "A" /\ fold.prev.location_confidence = 90
  /\ fold.x.location = "B" /\ fold.x.confidence = 100
  /\ fold.cur.location = "A" /\ fold.cur.location_confidence = 90

\* C34: an update on a live session clears no populated field and no stored
\* itemId; hence a session that is Recommending is never CollectingInfo after
\* a later update, and a session whose clues hold an itemId is Finalizing
\* after every later update.
C34_UpdateClearsNothing ==
  [][(UpdateStep /\ Live(sessions, last'.sid, now)) =>
       LET old == sessions[last'.sid]
           new == sessions'[last'.sid]
       IN /\ \A f \in ConfFields \cup {"itemno"} :
               Present(old.accumulated_clues[f]) => Present(new.accumulated_clues[f])
          /\ old.session_status = "recommending"
               => new.session_status # "collecting_info"
          /\ Present(old.accumulated_clues.itemno)
               => new.session_status = "finalizing"]_vars

\* a Recommending session was updated with a turn that carries one weaker
\* field and is still Recommending
C34_Witness ==
  /\ last.op = "update" /\ last.sid = last.rid
  /\ last.x = ParsedInput("S1", "B", None, None, DEFAULT_PRIORITY, None, 55)
  /\ sessions[last.rid].turn_count = 2
  /\ sessions[last.rid].session_status = "recommending"
  /\ sessions[last.rid].accumulated_clues.location = "A"

\* C35: expiry is final: a stored session whose last update is more than the
\* timeout ago is not made retrievable again by any operation -- after every
\* step a get on its id still finds nothing.
C35_ExpiryIsFinal ==
  [][\A id \in DOMAIN sessions :
       TimedOut(sessions[id], now) => ~get_session_found(sessions', id, now')]_vars

\* C36: a get on a session that has not timed out returns it and changes
\* nothing -- its clues, status, turnCount and lastUpdatedAt, and the rest of
\* the store, stay as they were -- so gets do not extend its lifetime: a get
\* finds a stored session exactly as long as no more than the timeout has
\* passed since the lastUpdatedAt that create, update or finalize stamped.
C36_GetChangesNothing ==
  [][(last'.op = "get" /\ last'.sid \in DOMAIN sessions) =>
       LET id == last'.sid IN
         /\ last'.ok = (now - sessions[id].last_updated <= SESSION_TIMEOUT)
         /\ last'.ok => sessions' = sessions /\ last'.rid = id]_vars

\* a get found a session with clues at the last minute of its lifetime
C36_Witness ==
  /\ last.op = "get" /\ last.ok
  /\ now - sessions[last.sid].last_updated = SESSION_TIMEOUT
  /\ sessions[last.sid].turn_count = 1
  /\ sessions[last.sid].accumulated_clues.location = "A"

\* C37: sessions are isolated: create, update, finalize, delete and a get
\* (evicting or not) made with one id leave every other stored session as it
\* was, and a delete or finalize of an id that is not in the store reports
\* failure and changes nothing.
C37_SessionsAreIsolated ==
  [][(last'.op \in {"create", "update", "finalize", "clear", "get"}) =>
       /\ \A j \in DOMAIN sessions \ {last'.sid} :
            j \in DOMAIN sessions' /\ sessions'[j] = sessions[j]
       /\ (last'.op \in {"finalize", "clear"} /\ last'.sid \notin DOMAIN sessions)
            => ~last'.ok /\ sessions' = sessions]_vars

\* the second session was updated while the first holds a turn
C37_Witness ==
  /\ last.op = "update" /\ last.sid = 2 /\ last.rid = 2
  /\ DOMAIN sessions = {1, 2}
  /\ sessions[1].turn_count = 1 /\ sessions[1].accumulated_clues.location = "A"
  /\ sessions[2].turn_count = 1 /\ sessions[2].accumulated_clues.location = None

\* C38: merge is idempotent on replay: merging the same turn a second time
\* into the clues it was just merged into changes no value, no confidence and
\* no itemId, i.e. merge(merge(c, x), x) = merge(c, x).
C38_MergeIsIdempotent ==
  fold.n > 0 =>
    /\ fold.cur = merge_with(fold.prev, fold.x)
    /\ merge_with(fold.cur, fold.x) = fold.cur

\* a turn replaced the stored location, being more confident by more than the
\* margin, and stored an itemId over another
C38_Witness ==
  /\ fold.n = 2
  /\ fold.prev.location = "A" /\ fold.prev.location_confidence = 50
  /\ fold.prev.itemno = "X"
  /\ fold.x.location = "A" /\ fold.x.confidence = 65 /\ fold.x.itemno = "Y"
  /\ fold.cur.location_confidence = 65 /\ fold.cur.itemno = "Y"

\* C39: the candidate query with max_retries = 5 attempts its primary query
\* again when it raised a database error, and gives up -- returning what a
\* query without the conditions finds -- only when the fifth attempt has
\* failed; the retry counter and the number of attempts never exceed 5.
C39_RetriesBeforeGivingUp ==
  /\ rank.retry_count <= MAX_RETRIES
  /\ rank.attempts <= MAX_RETRIES
  /\ (rank.pc = "returned" /\ rank.errors > 0 /\ rank.how # "primary")
       => rank.attempts = MAX_RETRIES

\* the text holds an identifier code as one of its tokens: at the start of
\* the text or behind a separator stands what one of the scenario2 patterns
\* describes
ContainsCodeToken(s) ==
  \E i \in 1 .. Len(s) :
    (i = 1 \/ s[i - 1] \in {" ", ","}) /\ scenario2_pattern_at(s, i)

\* C40: analyze_scenario gives scenario2 for every input that holds an
\* identifier-code token, wherever the token stands and whatever words
\* accompany it, e.g. a process name, a comma and then the code.
C40_CodeAnywhereIsScenario2 ==
  (parse.pc = "analyzed" /\ ContainsCodeToken(parse.input_text))
    => parse.scenario_type = "scenario2"


====
